---- MODULE Spec2Model ----
(***************************************************************************)
(* BrowserClaw shell emulator (src/src/shell.ts) over the OPFS storage     *)
(* helpers (src/unnamed/part_007, imported as ./storage.js).               *)
(*                                                                         *)
(* A JavaScript string is modelled as a sequence of one-character strings, *)
(* so that the scanners of the source (splitOnOperators, the redirect      *)
(* regular expressions, expandVars, tokenize, resolvePath) are computed    *)
(* character by character as the code computes them.  A fixed message that *)
(* is only ever produced and never scanned again (an error text) is kept   *)
(* as a single multi-character element.                                    *)
(***************************************************************************)
EXTENDS Integers, Sequences, FiniteSets, TLC

\* ------------------------------------------------------------------------
\* Strings
\* ------------------------------------------------------------------------

\* JavaScript \s, restricted to the white space of the modelled alphabet
IsWs(c) == c \in {" ", "\t", "\n"}

\* JavaScript \w
WordChars ==
  {"a","b","c","d","e","f","g","h","i","j","k","l","m","n","o","p","q","r",
   "s","t","u","v","w","x","y","z",
   "A","B","C","D","E","F","G","H","I","J","K","L","M","N","O","P","Q","R",
   "S","T","U","V","W","X","Y","Z",
   "0","1","2","3","4","5","6","7","8","9","_"}

Digits == {"0","1","2","3","4","5","6","7","8","9"}

\* s.slice(from) with a 1-based index: the characters from..Len(s)
Drop(s, from) == SubSeq(s, from, Len(s))

\* s.slice(0, n): the first n characters
Take(s, n) == SubSeq(s, 1, n)

\* s.startsWith(pre) at 1-based position p
MatchesAt(s, p, pre) ==
  /\ p >= 1
  /\ p + Len(pre) - 1 <= Len(s)
  /\ SubSeq(s, p, p + Len(pre) - 1) = pre

StartsWith(s, pre) == MatchesAt(s, 1, pre)

\* s.includes(sub)
Includes(s, sub) == \E p \in 1..(Len(s) + 1) : MatchesAt(s, p, sub)

\* seq.map(f) is written per use; the smallest element of a set of integers
MinOf(S) == CHOOSE x \in S : \A y \in S : x <= y

\* `const x = v; ...F(x)...`: v is evaluated once and F is applied to its value
Let(v, F(_)) == CHOOSE r \in {F(x) : x \in {v}} : TRUE

\* the first position >= p that holds a character of the set S, the position
\* past the end if there is none
NextIn(s, p, S) ==
  IF p > Len(s) THEN p
  ELSE MinOf({q \in p..Len(s) : s[q] \in S} \cup {Len(s) + 1})

\* the first position >= p that holds a character outside the set S
NextNotIn(s, p, S) ==
  IF p > Len(s) THEN p
  ELSE MinOf({q \in p..Len(s) : s[q] \notin S} \cup {Len(s) + 1})

WhiteSpace == {" ", "\t", "\n"}

\* the first position >= p that holds no white space (Len(s)+1 if none)
SkipWs(s, p) == NextNotIn(s, p, WhiteSpace)

\* the first position >= p that holds white space (Len(s)+1 if none)
SkipNonWs(s, p) == NextIn(s, p, WhiteSpace)

\* the last position <= p that holds no white space (0 if none)
RECURSIVE BackWs(_, _)
BackWs(s, p) ==
  IF p >= 1 /\ IsWs(s[p]) THEN BackWs(s, p - 1) ELSE p

\* s.trim()
Trim(s) == SubSeq(s, SkipWs(s, 1), BackWs(s, Len(s)))

\* parts.join(sep)
RECURSIVE Join(_, _)
Join(parts, sep) ==
  IF Len(parts) = 0 THEN <<>>
  ELSE IF Len(parts) = 1 THEN parts[1]
  ELSE parts[1] \o sep \o Join(Tail(parts), sep)

\* s.split(c) for a one-character separator c
RECURSIVE SplitFrom(_, _, _)
SplitFrom(s, c, p) ==
  LET q == NextIn(s, p, {c}) IN
  IF q > Len(s) THEN <<SubSeq(s, p, Len(s))>>
  ELSE <<SubSeq(s, p, q - 1)>> \o SplitFrom(s, c, q + 1)

SplitChar(s, c) == SplitFrom(s, c, 1)

\* seq.filter(Boolean) on a list of strings: the empty strings are dropped
NonEmpty(part) == Len(part) > 0
FilterNonEmpty(parts) == SelectSeq(parts, NonEmpty)

\* ------------------------------------------------------------------------
\* Operator splitting (splitOnOperators)
\* ------------------------------------------------------------------------

\* line[i] of JavaScript with a 1-based index: undefined past the end
CharAt(line, i) == IF i >= 1 /\ i <= Len(line) THEN line[i] ELSE "undefined"

\* variant of lines 115-116 in which the quote characters are not tested
SplitSpecial_noQuotes == {"&", "|", ";"}

\* the characters that some branch of the loop of splitOnOperators tests
SplitSpecial == {"'", "\"", "&", "|", ";"}

\* the while loop of splitOnOperators and the push that follows it; a run
\* of characters that no branch tests falls to the last branch one by one,
\* and is appended to current in one step here
RECURSIVE SplitLoop(_, _, _, _, _, _)
SplitLoop(line, i, current, inSingle, inDouble, segments) ==
  IF i > Len(line)
  THEN IF Len(Trim(current)) > 0
       THEN Append(segments, [cmd |-> current, op |-> <<>>])
       ELSE segments
  ELSE LET ch == line[i]
           q  == NextIn(line, i, SplitSpecial) IN
    IF q > i
    THEN SplitLoop(line, q, current \o SubSeq(line, i, q - 1),
                   inSingle, inDouble, segments)
    ELSE IF ch = "'" /\ ~inDouble
    THEN SplitLoop(line, i + 1, Append(current, ch), ~inSingle, inDouble, segments)
    ELSE IF ch = "\"" /\ ~inSingle
    THEN SplitLoop(line, i + 1, Append(current, ch), inSingle, ~inDouble, segments)
    ELSE IF inSingle \/ inDouble
    THEN SplitLoop(line, i + 1, Append(current, ch), inSingle, inDouble, segments)
    ELSE IF ch = "&" /\ CharAt(line, i + 1) = "&"
    THEN SplitLoop(line, i + 2, <<>>, inSingle, inDouble,
                   Append(segments, [cmd |-> current, op |-> <<"&", "&">>]))
    ELSE IF ch = "|" /\ CharAt(line, i + 1) = "|"
    THEN SplitLoop(line, i + 2, <<>>, inSingle, inDouble,
                   Append(segments, [cmd |-> current, op |-> <<"|", "|">>]))
    ELSE IF ch = ";"
    THEN SplitLoop(line, i + 1, <<>>, inSingle, inDouble,
                   Append(segments, [cmd |-> current, op |-> <<";">>]))
    ELSE SplitLoop(line, i + 1, Append(current, ch), inSingle, inDouble, segments)

splitOnOperators(line) == SplitLoop(line, 1, <<>>, FALSE, FALSE, <<>>)

\* ------------------------------------------------------------------------
\* Pipe splitting (the split of runPipe)
\* ------------------------------------------------------------------------

\* a match of /(?<!\|)\|(?!\|)/ at position p
IsSinglePipe(line, p) ==
  /\ CharAt(line, p) = "|"
  /\ CharAt(line, p - 1) # "|"
  /\ CharAt(line, p + 1) # "|"

\* the pieces between the matches, from position p on
RECURSIVE PipeSplitLoop(_, _)
PipeSplitLoop(line, p) ==
  LET q == MinOf({k \in p..Len(line) : IsSinglePipe(line, k)}
                 \cup {Len(line) + 1}) IN
  IF q > Len(line) THEN <<SubSeq(line, p, Len(line))>>
  ELSE <<SubSeq(line, p, q - 1)>> \o PipeSplitLoop(line, q + 1)

\* line.split(/(?<!\|)\|(?!\|)/).map((s) => s.trim()).filter(Boolean)
pipeParts(line) ==
  Let(PipeSplitLoop(line, 1), LAMBDA raw :
    FilterNonEmpty([k \in 1..Len(raw) |-> Trim(raw[k])]))

\* cmd.includes('|') && !cmd.includes('||')
isPipe(cmd) == Includes(cmd, <<"|">>) /\ ~Includes(cmd, <<"|", "|">>)

\* ------------------------------------------------------------------------
\* Redirect extraction (the head of runSingle)
\* ------------------------------------------------------------------------

\* /\s*OP\s*(\S+)\s*$/ matches s from position p on
RedirMatchesAt(s, p, op) ==
  LET q  == SkipWs(s, p)
      r  == SkipWs(s, q + Len(op))
      e  == SkipNonWs(s, r)
  IN /\ MatchesAt(s, q, op)
     /\ e > r
     /\ SkipWs(s, e) = Len(s) + 1

\* raw.match(/\s*OP\s*(\S+)\s*$/): whether it matches, match.index (1-based)
\* of the leftmost match, and its group 1
RedirMatch(s, op) ==
  Let({p \in 1..Len(s) : RedirMatchesAt(s, p, op)}, LAMBDA ms :
    IF ms = {} THEN [found |-> FALSE, index |-> 0, file |-> <<>>]
    ELSE Let(SkipWs(s, SkipWs(s, MinOf(ms)) + Len(op)), LAMBDA r :
           [found |-> TRUE, index |-> MinOf(ms),
            file |-> SubSeq(s, r, SkipNonWs(s, r) - 1)]))

\* lines 175-189 of runSingle: kind is "append", "write" or "none"
extractRedirect(raw) ==
  Let(RedirMatch(raw, <<">", ">">>), LAMBDA app :
    IF app.found
    THEN [kind |-> "append", file |-> app.file, cmdStr |-> Take(raw, app.index - 1)]
    ELSE Let(RedirMatch(raw, <<">">>), LAMBDA wr :
      IF wr.found
      THEN [kind |-> "write", file |-> wr.file, cmdStr |-> Take(raw, wr.index - 1)]
      ELSE [kind |-> "none", file |-> <<>>, cmdStr |-> raw]))

\* ------------------------------------------------------------------------
\* Variable expansion (expandVars)
\* ------------------------------------------------------------------------

\* the end of the maximal \w run that starts at p (p - 1 if there is none)
WordEnd(s, p) == NextNotIn(s, p, WordChars) - 1

\* env[name] ?? ''
EnvGet(env, name) == IF name \in DOMAIN env THEN env[name] ELSE <<>>

\* str.replace(/\$\{(\w+)\}/g, (_, name) => env[name] ?? '')
RECURSIVE ExpandBraced(_, _, _)
ExpandBraced(s, p, env) ==
  IF p > Len(s) THEN <<>>
  ELSE LET e == WordEnd(s, p + 2)
           q == NextIn(s, p, {"$"}) IN
    IF q > p THEN SubSeq(s, p, q - 1) \o ExpandBraced(s, q, env)
    ELSE IF /\ s[p] = "$"
       /\ CharAt(s, p + 1) = "{"
       /\ e >= p + 2
       /\ CharAt(s, e + 1) = "}"
    THEN EnvGet(env, SubSeq(s, p + 2, e)) \o ExpandBraced(s, e + 2, env)
    ELSE <<s[p]>> \o ExpandBraced(s, p + 1, env)

\* result.replace(/\$(\w+)/g, (_, name) => env[name] ?? '')
RECURSIVE ExpandPlain(_, _, _)
ExpandPlain(s, p, env) ==
  IF p > Len(s) THEN <<>>
  ELSE LET e == WordEnd(s, p + 1)
           q == NextIn(s, p, {"$"}) IN
    IF q > p THEN SubSeq(s, p, q - 1) \o ExpandPlain(s, q, env)
    ELSE IF s[p] = "$" /\ e >= p + 1
    THEN EnvGet(env, SubSeq(s, p + 1, e)) \o ExpandPlain(s, e + 1, env)
    ELSE <<s[p]>> \o ExpandPlain(s, p + 1, env)

expandVars(str, env) == ExpandPlain(ExpandBraced(str, 1, env), 1, env)

\* ------------------------------------------------------------------------
\* Tokenizer (tokenize)
\* ------------------------------------------------------------------------

\* the characters that some branch of the loop of tokenize tests
TokSpecial == {"\\", "'", "\"", " "}

\* the loop of tokenize and the push that follows it; outside an escape a
\* run of characters that no branch tests is appended to current in one step
RECURSIVE TokLoop(_, _, _, _, _, _, _)
TokLoop(cmd, p, current, inSingle, inDouble, escape, tokens) ==
  IF p > Len(cmd)
  THEN IF Len(current) > 0 THEN Append(tokens, current) ELSE tokens
  ELSE LET ch == cmd[p]
           q  == NextIn(cmd, p, TokSpecial) IN
    IF ~escape /\ q > p
    THEN TokLoop(cmd, q, current \o SubSeq(cmd, p, q - 1),
                 inSingle, inDouble, FALSE, tokens)
    ELSE IF escape
    THEN TokLoop(cmd, p + 1, Append(current, ch), inSingle, inDouble, FALSE, tokens)
    ELSE IF ch = "\\" /\ ~inSingle
    THEN TokLoop(cmd, p + 1, current, inSingle, inDouble, TRUE, tokens)
    ELSE IF ch = "'" /\ ~inDouble
    THEN TokLoop(cmd, p + 1, current, ~inSingle, inDouble, FALSE, tokens)
    ELSE IF ch = "\"" /\ ~inSingle
    THEN TokLoop(cmd, p + 1, current, inSingle, ~inDouble, FALSE, tokens)
    ELSE IF ch = " " /\ ~inSingle /\ ~inDouble
    THEN TokLoop(cmd, p + 1, <<>>, inSingle, inDouble, FALSE,
                 IF Len(current) > 0 THEN Append(tokens, current) ELSE tokens)
    ELSE TokLoop(cmd, p + 1, Append(current, ch), inSingle, inDouble, FALSE, tokens)

tokenize(cmd) == TokLoop(cmd, 1, <<>>, FALSE, FALSE, FALSE, <<>>)

\* ------------------------------------------------------------------------
\* Path resolution (resolvePath)
\* ------------------------------------------------------------------------

Dot == <<".">>
WorkspacePrefix == <<"/", "w", "o", "r", "k", "s", "p", "a", "c", "e">>

\* p.replace(/^\/workspace\/?/, '')
StripWorkspace(p) ==
  IF StartsWith(p, WorkspacePrefix)
  THEN IF CharAt(p, Len(WorkspacePrefix) + 1) = "/"
       THEN Drop(p, Len(WorkspacePrefix) + 2)
       ELSE Drop(p, Len(WorkspacePrefix) + 1)
  ELSE p

\* cleaned.replace(/^\/+/, '')
StripSlashes(s) == Drop(s, NextNotIn(s, 1, {"/"}))

\* variant of the loop that keeps a ".." it cannot pop
RECURSIVE NormaliseParts_keepDotDot(_, _)
NormaliseParts_keepDotDot(segs, parts) ==
  IF Len(segs) = 0 THEN parts
  ELSE LET seg == Head(segs) IN
    IF seg = Dot \/ seg = <<>> THEN NormaliseParts_keepDotDot(Tail(segs), parts)
    ELSE IF seg = <<".", ".">> /\ Len(parts) > 0
    THEN NormaliseParts_keepDotDot(Tail(segs), Take(parts, Len(parts) - 1))
    ELSE NormaliseParts_keepDotDot(Tail(segs), Append(parts, seg))

\* the loop over cleaned.split('/') that drops "." and "" and pops on ".."
RECURSIVE NormaliseParts(_, _)
NormaliseParts(segs, parts) ==
  IF Len(segs) = 0 THEN parts
  ELSE LET seg == Head(segs) IN
    IF seg = Dot \/ seg = <<>> THEN NormaliseParts(Tail(segs), parts)
    ELSE IF seg = <<".", ".">>
    THEN NormaliseParts(Tail(segs),
                        IF Len(parts) = 0 THEN parts ELSE Take(parts, Len(parts) - 1))
    ELSE NormaliseParts(Tail(segs), Append(parts, seg))

resolvePath(p, cwd) ==
  Let(StripWorkspace(p), LAMBDA stripped :
    IF Len(stripped) = 0 \/ stripped = <<"/">> THEN Dot
    ELSE Let(NormaliseParts(
               SplitChar(StripSlashes(IF ~StartsWith(stripped, <<"/">>) /\ cwd # Dot
                                      THEN cwd \o <<"/">> \o stripped
                                      ELSE stripped), "/"),
               <<>>),
             LAMBDA parts : IF Len(parts) = 0 THEN Dot ELSE Join(parts, <<"/">>)))

\* ------------------------------------------------------------------------
\* Storage (OPFS helpers of ./storage.js)
\*
\* The workspace of one group is a tree: a function from the paths that
\* exist (a path is the sequence of its segment names, <<>> is the group
\* directory that getGroupDir creates on every call) to an entry that is a
\* directory or a file with its text.  The handle operations answer as the
\* File System Access API does: NotFoundError for a missing entry,
\* TypeMismatchError for an entry of the other kind, TypeError for a name
\* that is "." or "..", InvalidModificationError when a directory that is
\* not empty is removed.
\* ------------------------------------------------------------------------

DirEntry == [kind |-> "dir", content |-> <<>>]
FileEntry(text) == [kind |-> "file", content |-> text]

EmptyFS == (<<>> :> DirEntry)

NotFoundError == <<"NotFoundError">>
TypeMismatchError == <<"TypeMismatchError">>
NameTypeError == <<"TypeError: Name is not allowed.">>
InvalidModificationError == <<"InvalidModificationError">>
EmptyPathError == <<"Empty file path">>

ValidName(seg) == seg # <<".">> /\ seg # <<".", ".">>

\* the answer of a storage step: the tree after it, and the error it threw
\* (<<>> when it returned)
Ok(tree) == [fs |-> tree, err |-> <<>>, at |-> <<>>, value |-> <<>>]
Rejected(tree, e) == [fs |-> tree, err |-> e, at |-> <<>>, value |-> <<>>]

\* filePath.replace(/\\/g, '/')
BackslashToSlash(s) == [k \in 1..Len(s) |-> IF s[k] = "\\" THEN "/" ELSE s[k]]

\* the segments of parsePath and of listGroupFiles:
\* normalized.split('/').filter(Boolean), leading slashes removed
pathParts(filePath) ==
  FilterNonEmpty(SplitChar(StripSlashes(BackslashToSlash(filePath)), "/"))

\* dir.getDirectoryHandle(seg, { create }) from the directory `at`
getDirectoryHandle(tree, at, seg, create) ==
  LET p == Append(at, seg) IN
  IF ~ValidName(seg) THEN Rejected(tree, NameTypeError)
  ELSE IF p \in DOMAIN tree
  THEN IF tree[p].kind = "dir"
       THEN [Ok(tree) EXCEPT !.at = p]
       ELSE Rejected(tree, TypeMismatchError)
  ELSE IF create
  THEN [Ok((p :> DirEntry) @@ tree) EXCEPT !.at = p]
  ELSE Rejected(tree, NotFoundError)

\* the loop `for (const seg of dirs) dir = await dir.getDirectoryHandle(...)`
RECURSIVE walkDirs(_, _, _, _)
walkDirs(tree, at, dirs, create) ==
  IF Len(dirs) = 0 THEN [Ok(tree) EXCEPT !.at = at]
  ELSE Let(getDirectoryHandle(tree, at, Head(dirs), create), LAMBDA step :
    IF step.err # <<>> THEN step
    ELSE walkDirs(step.fs, step.at, Tail(dirs), create))

\* dir.getFileHandle(filename, { create }) from the directory `at`
getFileHandle(tree, at, filename, create) ==
  LET p == Append(at, filename) IN
  IF ~ValidName(filename) THEN Rejected(tree, NameTypeError)
  ELSE IF p \in DOMAIN tree
  THEN IF tree[p].kind = "file"
       THEN [Ok(tree) EXCEPT !.at = p]
       ELSE Rejected(tree, TypeMismatchError)
  ELSE IF create
  THEN [Ok((p :> FileEntry(<<>>)) @@ tree) EXCEPT !.at = p]
  ELSE Rejected(tree, NotFoundError)

\* readGroupFile: value is the text of the file
readGroupFile(tree, filePath) ==
  Let(pathParts(filePath), LAMBDA parts :
  IF Len(parts) = 0 THEN Rejected(tree, EmptyPathError)
  ELSE Let(walkDirs(tree, <<>>, Take(parts, Len(parts) - 1), FALSE), LAMBDA dir :
    IF dir.err # <<>> THEN dir
    ELSE Let(getFileHandle(dir.fs, dir.at, parts[Len(parts)], FALSE), LAMBDA fh :
      IF fh.err # <<>> THEN fh
      ELSE [fh EXCEPT !.value = tree[fh.at].content])))

\* writeGroupFile: the intermediate directories and the file are created;
\* createWritable / write / close replace the text of the file
writeGroupFile(tree, filePath, content) ==
  Let(pathParts(filePath), LAMBDA parts :
  IF Len(parts) = 0 THEN Rejected(tree, EmptyPathError)
  ELSE Let(walkDirs(tree, <<>>, Take(parts, Len(parts) - 1), TRUE), LAMBDA dir :
    IF dir.err # <<>> THEN dir
    ELSE Let(getFileHandle(dir.fs, dir.at, parts[Len(parts)], TRUE), LAMBDA fh :
      IF fh.err # <<>> THEN fh
      ELSE Ok([fh.fs EXCEPT ![fh.at] = FileEntry(content)]))))

\* the children of directory `at`
Children(tree, at) ==
  {p \in DOMAIN tree : Len(p) = Len(at) + 1 /\ Take(p, Len(at)) = at}

\* deleteGroupFile: dir.removeEntry(filename)
deleteGroupFile(tree, filePath) ==
  Let(pathParts(filePath), LAMBDA parts :
  IF Len(parts) = 0 THEN Rejected(tree, EmptyPathError)
  ELSE Let(walkDirs(tree, <<>>, Take(parts, Len(parts) - 1), FALSE), LAMBDA dir :
    IF dir.err # <<>> THEN dir
    ELSE IF ~ValidName(parts[Len(parts)]) THEN Rejected(tree, NameTypeError)
    ELSE Let(Append(dir.at, parts[Len(parts)]), LAMBDA p :
      IF p \notin DOMAIN tree THEN Rejected(tree, NotFoundError)
      ELSE IF tree[p].kind = "dir" /\ Children(tree, p) # {}
      THEN Rejected(tree, InvalidModificationError)
      ELSE Ok([q \in (DOMAIN tree) \ {p} |-> tree[q]]))))

\* groupFileExists: value is <<"true">> or <<"false">>
groupFileExists(tree, filePath) ==
  IF readGroupFile(tree, filePath).err = <<>>
  THEN [Ok(tree) EXCEPT !.value = <<"true">>]
  ELSE [Ok(tree) EXCEPT !.value = <<"false">>]

\* the UTF-16 code units of the printable ASCII characters (the backquote
\* left out) in increasing order, the order Array.prototype.sort compares strings by
CodeUnits ==
  <<" ", "!", "\"", "#", "$", "%", "&", "'", "(", ")", "*", "+", ",", "-", ".", "/",
    "0", "1", "2", "3", "4", "5", "6", "7", "8", "9", ":", ";", "<", "=", ">", "?", "@",
    "A", "B", "C", "D", "E", "F", "G", "H", "I", "J", "K", "L", "M", "N", "O", "P", "Q",
    "R", "S", "T", "U", "V", "W", "X", "Y", "Z", "[", "\\", "]", "^", "_",
    "a", "b", "c", "d", "e", "f", "g", "h", "i", "j", "k", "l", "m", "n", "o", "p", "q",
    "r", "s", "t", "u", "v", "w", "x", "y", "z", "{", "|", "}", "~">>

CharCode(c) == CHOOSE k \in 1..Len(CodeUnits) : CodeUnits[k] = c

\* a < b for two strings: the first differing code unit decides, a proper
\* prefix is smaller
StrLess(a, b) ==
  \E k \in 1..Len(b) :
    /\ \A i \in 1..(k - 1) : i <= Len(a) /\ a[i] = b[i]
    /\ Len(a) >= k - 1
    /\ \/ Len(a) = k - 1
       \/ CharCode(a[k]) < CharCode(b[k])

\* entries.sort() of a set of distinct strings
RECURSIVE SortStrings(_)
SortStrings(S) ==
  IF S = {} THEN <<>>
  ELSE Let(CHOOSE m \in S : \A x \in S \ {m} : StrLess(m, x), LAMBDA m :
         <<m>> \o SortStrings(S \ {m}))

\* variant of listGroupFiles that returns the bare names, without the slash
\* that marks a directory
listGroupFiles_plainNames(tree, dirPath) ==
  Let(walkDirs(tree, <<>>, IF dirPath = <<>> \/ dirPath = Dot THEN <<>> ELSE pathParts(dirPath),
               FALSE),
      LAMBDA dir :
    IF dir.err # <<>> THEN dir
    ELSE [dir EXCEPT !.value = SortStrings({p[Len(p)] : p \in Children(tree, dir.at)})])

\* listGroupFiles: the names of the entries of the directory, a directory
\* with a trailing slash, sorted; value is the list
listGroupFiles(tree, dirPath) ==
  Let(walkDirs(tree, <<>>, IF dirPath = <<>> \/ dirPath = Dot THEN <<>> ELSE pathParts(dirPath),
               FALSE),
      LAMBDA dir :
    IF dir.err # <<>> THEN dir
    ELSE [dir EXCEPT !.value =
            SortStrings({IF tree[p].kind = "dir" THEN p[Len(p)] \o <<"/">> ELSE p[Len(p)] :
                           p \in Children(tree, dir.at)})])

\* safeRead of shell.ts: null when readGroupFile rejects
Null == <<"null-value">>

\* variant of safeRead that takes an empty file for a missing one
safeRead_emptyIsNull(tree, path) ==
  Let(readGroupFile(tree, path), LAMBDA r :
    IF r.err = <<>> /\ r.value # <<>> THEN r.value ELSE Null)

safeRead(tree, path) ==
  Let(readGroupFile(tree, path), LAMBDA r :
    IF r.err = <<>> THEN r.value ELSE Null)

\* JavaScript `a + b` where a is a string or null: null is converted to the
\* text "null"
StrPlus(a, b) == IF a = Null THEN <<"n", "u", "l", "l">> \o b ELSE a \o b

\* JavaScript `a ?? ''`
OrEmpty(a) == IF a = Null THEN <<>> ELSE a

\* ------------------------------------------------------------------------
\* Numbers (Number, parseFloat, String) on the decimal integers
\* ------------------------------------------------------------------------

NaN == [nan |-> TRUE, v |-> 0]
Num(n) == [nan |-> FALSE, v |-> n]

DigitSeq == <<"0", "1", "2", "3", "4", "5", "6", "7", "8", "9">>
DigitVal(c) == (CHOOSE k \in 1..Len(DigitSeq) : DigitSeq[k] = c) - 1

AllDigits(s) == Len(s) > 0 /\ \A k \in 1..Len(s) : s[k] \in Digits

RECURSIVE ParseNat(_, _)
ParseNat(s, acc) ==
  IF Len(s) = 0 THEN acc
  ELSE ParseNat(Tail(s), acc * Len(DigitSeq) + DigitVal(Head(s)))

\* Number(str): white space is trimmed, "" is 0, a signed run of digits is
\* its value, any other text of the modelled alphabet is NaN
ToNumber(str) ==
  LET t == Trim(str) IN
  IF Len(t) = 0 THEN Num(0)
  ELSE IF AllDigits(t) THEN Num(ParseNat(t, 0))
  ELSE IF Head(t) = "-" /\ AllDigits(Tail(t)) THEN Num(0 - ParseNat(Tail(t), 0))
  ELSE IF Head(t) = "+" /\ AllDigits(Tail(t)) THEN Num(ParseNat(Tail(t), 0))
  ELSE NaN

\* the end of the maximal run of digits that starts at p (p - 1 if none)
RECURSIVE DigitsEnd(_, _)
DigitsEnd(s, p) ==
  IF p <= Len(s) /\ s[p] \in Digits THEN DigitsEnd(s, p + 1) ELSE p - 1

\* parseFloat(str): the longest signed digit prefix after leading white
\* space, NaN when there is none
parseFloat(str) ==
  LET p  == SkipWs(str, 1)
      sg == CharAt(str, p) \in {"-", "+"}
      d  == IF sg THEN p + 1 ELSE p
      e  == DigitsEnd(str, d)
  IN IF e < d THEN NaN
     ELSE IF CharAt(str, p) = "-" THEN Num(0 - ParseNat(SubSeq(str, d, e), 0))
     ELSE Num(ParseNat(SubSeq(str, d, e), 0))

RECURSIVE NatToStr(_)
NatToStr(n) ==
  IF n < Len(DigitSeq) THEN <<DigitSeq[n + 1]>>
  ELSE Append(NatToStr(n \div Len(DigitSeq)), DigitSeq[(n % Len(DigitSeq)) + 1])

\* String(x) of a number
NumToStr(x) ==
  IF x.nan THEN <<"N", "a", "N">>
  ELSE IF x.v < 0 THEN <<"-">> \o NatToStr(0 - x.v)
  ELSE NatToStr(x.v)

\* comparisons and addition of JavaScript numbers: every comparison with
\* NaN is false, every sum with NaN is NaN
NumGt(a, b) == ~a.nan /\ ~b.nan /\ a.v > b.v
NumGe(a, b) == ~a.nan /\ ~b.nan /\ a.v >= b.v
NumLe(a, b) == ~a.nan /\ ~b.nan /\ a.v <= b.v
NumAdd(a, b) == IF a.nan \/ b.nan THEN NaN ELSE Num(a.v + b.v)

\* ------------------------------------------------------------------------
\* Flag parsing (parseFlags)
\* ------------------------------------------------------------------------

\* arr.includes(x)
ListIncludes(arr, x) == \E k \in 1..Len(arr) : arr[k] = x

\* obj[key] = val on a JavaScript object used as a map (flags, env)
SetKey(obj, key, val) == (key :> val) @@ obj

\* s.indexOf(c), 1-based, 0 when c does not occur
RECURSIVE IndexFrom(_, _, _)
IndexFrom(s, c, p) ==
  IF p > Len(s) THEN 0 ELSE IF s[p] = c THEN p ELSE IndexFrom(s, c, p + 1)

\* the loop `for (const ch of flag)` of a combined flag such as -rn; i is
\* the index of the argument last consumed
RECURSIVE CombinedFlags(_, _, _, _, _, _)
CombinedFlags(flag, k, args, i, withValue, flags) ==
  IF k > Len(flag) THEN [i |-> i, flags |-> flags]
  ELSE IF ListIncludes(withValue, <<flag[k]>>) /\ i + 1 <= Len(args)
  THEN CombinedFlags(flag, k + 1, args, i + 1, withValue,
                     SetKey(flags, <<flag[k]>>, args[i + 1]))
  ELSE CombinedFlags(flag, k + 1, args, i, withValue,
                     SetKey(flags, <<flag[k]>>, <<>>))

\* variant of line 744 in which `--` is an operand like any other
RECURSIVE ParseFlagsLoop_keepDashes(_, _, _, _, _)
ParseFlagsLoop_keepDashes(args, i, withValue, flags, operands) ==
  IF i > Len(args) THEN [flags |-> flags, operands |-> operands]
  ELSE IF args[i] = <<"-", "-">>
  THEN [flags |-> flags, operands |-> operands \o Drop(args, i)]
  ELSE IF StartsWith(args[i], <<"-">>) /\ Len(args[i]) > 1
  THEN ParseFlagsLoop_keepDashes(args, i + 1, withValue,
                                 SetKey(flags, Tail(args[i]), <<>>), operands)
  ELSE ParseFlagsLoop_keepDashes(args, i + 1, withValue, flags,
                                 Append(operands, args[i]))

RECURSIVE ParseFlagsLoop(_, _, _, _, _)
ParseFlagsLoop(args, i, withValue, flags, operands) ==
  IF i > Len(args) THEN [flags |-> flags, operands |-> operands]
  ELSE LET a == args[i] IN
    IF a = <<"-", "-">>
    THEN [flags |-> flags, operands |-> operands \o Drop(args, i + 1)]
    ELSE IF StartsWith(a, <<"-">>) /\ Len(a) > 1 /\ ~StartsWith(a, <<"-", "-">>)
    THEN LET flag == Tail(a) IN
      IF Len(flag) > 1 /\ ~ListIncludes(withValue, flag)
      THEN LET c == CombinedFlags(flag, 1, args, i, withValue, flags) IN
           ParseFlagsLoop(args, c.i + 1, withValue, c.flags, operands)
      ELSE IF ListIncludes(withValue, flag) /\ i + 1 <= Len(args)
      THEN ParseFlagsLoop(args, i + 2, withValue,
                          SetKey(flags, flag, args[i + 1]), operands)
      ELSE ParseFlagsLoop(args, i + 1, withValue,
                          SetKey(flags, flag, <<>>), operands)
    ELSE IF StartsWith(a, <<"-", "-">>)
    THEN LET eq == IndexFrom(a, "=", 1) IN
      IF eq > 1
      THEN ParseFlagsLoop(args, i + 1, withValue,
                          SetKey(flags, SubSeq(a, 3, eq - 1), Drop(a, eq + 1)),
                          operands)
      ELSE ParseFlagsLoop(args, i + 1, withValue,
                          SetKey(flags, Drop(a, 3), <<>>), operands)
    ELSE ParseFlagsLoop(args, i + 1, withValue, flags, Append(operands, a))

\* the booleans parameter of the source is never read by parseFlags
parseFlags(args, withValue) == ParseFlagsLoop(args, 1, withValue, <<>>, <<>>)

\* ------------------------------------------------------------------------
\* Results and the execution context
\* ------------------------------------------------------------------------

ShellResult(out, err, code) == [stdout |-> out, stderr |-> err, exitCode |-> code]

EmptyResult == ShellResult(<<>>, <<>>, 0)

\* the helpers ok and fail of dispatch
ok(out) == ShellResult(out, <<>>, 0)
fail(err, code) == ShellResult(<<>>, err, code)

TimeoutMessage == <<"[command timed out]">>

\* variant of checkTimeout that allows one more second
timedOut_grace(ctx) == ctx.elapsed > ctx.timeoutMs + 1000

\* checkTimeout: Date.now() - ctx.startedAt > ctx.timeoutMs.  ctx.elapsed is
\* Date.now() - ctx.startedAt, the only use the code makes of both.
timedOut(ctx) == ctx.elapsed > ctx.timeoutMs

\* the outcome of a step that may throw: status is "ok" (res is returned),
\* "thrown" (err is the message of the exception) or "hang" (the step never
\* returns); ctx and fs are the context and the workspace tree it leaves;
\* calls lists the calls of dispatch made on the way, with their results
Returned(r, ctx, tree) ==
  [status |-> "ok", res |-> r, err |-> <<>>, ctx |-> ctx, fs |-> tree,
   calls |-> <<>>]
Thrown(e, ctx, tree) ==
  [status |-> "thrown", res |-> EmptyResult, err |-> e, ctx |-> ctx, fs |-> tree,
   calls |-> <<>>]
Hangs(ctx, tree) ==
  [status |-> "hang", res |-> EmptyResult, err |-> <<>>, ctx |-> ctx, fs |-> tree,
   calls |-> <<>>]

\* ------------------------------------------------------------------------
\* Builtins (dispatch)
\* ------------------------------------------------------------------------

cmdEcho == <<"e", "c", "h", "o">>
cmdCat == <<"c", "a", "t">>
cmdTr == <<"t", "r">>
cmdMkdir == <<"m", "k", "d", "i", "r">>
cmdPwd == <<"p", "w", "d">>
cmdCd == <<"c", "d">>
cmdSleep == <<"s", "l", "e", "e", "p">>
cmdSeq == <<"s", "e", "q">>
cmdTrue == <<"t", "r", "u", "e">>
cmdFalse == <<"f", "a", "l", "s", "e">>

\* case 'cat': the loop over the operands
RECURSIVE CatLoop(_, _, _, _, _, _)
CatLoop(args, k, ctx, stdin, tree, parts) ==
  IF k > Len(args) THEN ok(parts)
  ELSE IF args[k] = <<"-">>
  THEN CatLoop(args, k + 1, ctx, stdin, tree, parts \o stdin)
  ELSE Let(safeRead(tree, resolvePath(args[k], ctx.cwd)), LAMBDA content :
    IF content = Null
    THEN fail(<<"cat: ">> \o args[k] \o <<": No such file">>, 1)
    ELSE CatLoop(args, k + 1, ctx, stdin, tree, parts \o content))

\* text.replace(new RegExp(escapeRegex(c), 'g'), r) for one character c
ReplaceChar(text, c, r) == [k \in 1..Len(text) |-> IF text[k] = c THEN r ELSE text[k]]

\* case 'tr', two sets: the loop over the characters of `from`
RECURSIVE TrLoop(_, _, _, _)
TrLoop(text, from, to, i) ==
  IF i > Len(from) THEN text
  ELSE TrLoop(ReplaceChar(text, from[i],
                          IF i <= Len(to) THEN to[i] ELSE to[Len(to)]),
              from, to, i + 1)

\* case 'tr', -d: text.replace(new RegExp(`[${escapeRegex(chars)}]`, 'g'), '')
\* for a set of plain characters (no range, no leading ^)
DeleteChars(text, chars) ==
  LET Kept(ch) == \A k \in 1..Len(chars) : chars[k] # ch IN
  SelectSeq(text, Kept)

\* case 'mkdir': one writeGroupFile of dir + '/.keep' per operand; a write
\* that rejects is not caught here
RECURSIVE MkdirLoop(_, _, _, _)
MkdirLoop(operands, k, ctx, tree) ==
  IF k > Len(operands) THEN Returned(ok(<<>>), ctx, tree)
  ELSE Let(writeGroupFile(tree,
             resolvePath(operands[k] \o <<"/", ".", "k", "e", "e", "p">>, ctx.cwd),
             <<>>),
           LAMBDA w :
    IF w.err # <<>> THEN Thrown(w.err, ctx, w.fs)
    ELSE MkdirLoop(operands, k + 1, ctx, w.fs))

\* variant of lines 446-452 that writes the empty file whether or not the
\* file exists
RECURSIVE TouchLoop_truncate(_, _, _, _)
TouchLoop_truncate(args, k, ctx, tree) ==
  IF k > Len(args) THEN Returned(ok(<<>>), ctx, tree)
  ELSE Let(writeGroupFile(tree, resolvePath(args[k], ctx.cwd), <<>>), LAMBDA w :
    IF w.err # <<>> THEN Thrown(w.err, ctx, w.fs)
    ELSE TouchLoop_truncate(args, k + 1, ctx, w.fs))

\* case 'touch': for each argument, the file is written empty if safeRead
\* finds none; a write that rejects is not caught here
RECURSIVE TouchLoop(_, _, _, _)
TouchLoop(args, k, ctx, tree) ==
  IF k > Len(args) THEN Returned(ok(<<>>), ctx, tree)
  ELSE Let(resolvePath(args[k], ctx.cwd), LAMBDA path :
    IF safeRead(tree, path) # Null THEN TouchLoop(args, k + 1, ctx, tree)
    ELSE Let(writeGroupFile(tree, path, <<>>), LAMBDA w :
      IF w.err # <<>> THEN Thrown(w.err, ctx, w.fs)
      ELSE TouchLoop(args, k + 1, ctx, w.fs)))

\* case 'sleep': Math.min(parseFloat(args[0] ?? '0') * 1000, 5000); setTimeout
\* treats NaN and negative delays as 0
MsPerSecond == 1000
SleepCapMs == 5000
sleepMs(args) ==
  Let(parseFloat(IF Len(args) > 0 THEN args[1] ELSE <<"0">>), LAMBDA n :
    IF n.nan \/ n.v < 0 THEN 0
    ELSE IF n.v * MsPerSecond < SleepCapMs THEN n.v * MsPerSecond ELSE SleepCapMs)

\* case 'seq': for (let i = start; step > 0 ? i <= end : i >= end; i += step)
\* out.push(i).  done is FALSE when an iteration leaves i as it was: the
\* condition, which reads i, step and end only, then stays true for ever.
RECURSIVE SeqLoop(_, _, _, _)
SeqLoop(i, step, end, out) ==
  IF ~(IF NumGt(step, Num(0)) THEN NumLe(i, end) ELSE NumGe(i, end))
  THEN [done |-> TRUE, out |-> out]
  ELSE IF NumAdd(i, step) = i
  THEN [done |-> FALSE, out |-> out]
  ELSE SeqLoop(NumAdd(i, step), step, end, Append(out, i))

seqArgs(args) ==
  Let([k \in 1..Len(args) |-> ToNumber(args[k])], LAMBDA nums :
    IF Len(nums) = 1 THEN [start |-> Num(1), step |-> Num(1), end |-> nums[1]]
    ELSE IF Len(nums) = 2 THEN [start |-> nums[1], step |-> Num(1), end |-> nums[2]]
    ELSE IF Len(nums) >= 3 THEN [start |-> nums[1], step |-> nums[2], end |-> nums[3]]
    ELSE [start |-> Num(1), step |-> Num(1), end |-> Num(1)])

\* case 'cp', lines 456-464
cmdCp(args, ctx, tree) ==
  IF Len(args) < 2 THEN Returned(fail(<<"c", "p", ":", " ", "m", "i", "s", "s", "i", "n", "g", " ", "o", "p", "e", "r", "a", "n", "d", "s">>, 1), ctx, tree)
  ELSE Let(safeRead(tree, resolvePath(args[1], ctx.cwd)), LAMBDA content :
    IF content = Null
    THEN Returned(fail(<<"c", "p", ":", " ">> \o args[1] \o <<":", " ", "N", "o", " ", "s", "u", "c", "h", " ", "f", "i", "l", "e">>, 1), ctx, tree)
    ELSE Let(writeGroupFile(tree, resolvePath(args[2], ctx.cwd), content), LAMBDA w :
      IF w.err # <<>> THEN Thrown(w.err, ctx, w.fs)
      ELSE Returned(ok(<<>>), ctx, w.fs)))

\* case 'mv': the destination is written, then the source is deleted; a
\* rejection of either is not caught here
cmdMv(args, ctx, tree) ==
  IF Len(args) < 2 THEN Returned(fail(<<"m", "v", ":", " ", "m", "i", "s", "s", "i", "n", "g", " ", "o", "p", "e", "r", "a", "n", "d", "s">>, 1), ctx, tree)
  ELSE Let(resolvePath(args[1], ctx.cwd), LAMBDA src :
       Let(safeRead(tree, src), LAMBDA content :
    IF content = Null
    THEN Returned(fail(<<"m", "v", ":", " ">> \o args[1] \o <<":", " ", "N", "o", " ", "s", "u", "c", "h", " ", "f", "i", "l", "e">>, 1), ctx, tree)
    ELSE Let(writeGroupFile(tree, resolvePath(args[2], ctx.cwd), content), LAMBDA w :
      IF w.err # <<>> THEN Thrown(w.err, ctx, w.fs)
      ELSE Let(deleteGroupFile(w.fs, src), LAMBDA r :
        IF r.err # <<>> THEN Thrown(r.err, ctx, r.fs)
        ELSE Returned(ok(<<>>), ctx, r.fs)))))

\* case 'rm': one deleteGroupFile per operand; a rejection ends the loop
\* with a failure unless -f is given
RECURSIVE RmLoop(_, _, _, _, _)
RmLoop(operands, k, force, ctx, tree) ==
  IF k > Len(operands) THEN Returned(ok(<<>>), ctx, tree)
  ELSE Let(deleteGroupFile(tree, resolvePath(operands[k], ctx.cwd)), LAMBDA r :
    IF r.err # <<>> /\ ~force
    THEN Returned(fail(<<"r", "m", ":", " ">> \o operands[k] \o <<":", " ", "N", "o", " ", "s", "u", "c", "h", " ", "f", "i", "l", "e">>, 1), ctx, tree)
    ELSE RmLoop(operands, k + 1, force, ctx, r.fs))

\* case 'export': for (const a of args) { eq = a.indexOf('='); if (eq > 0)
\* ctx.env[a.slice(0, eq)] = a.slice(eq + 1) }
RECURSIVE ExportLoop(_, _, _)
ExportLoop(args, k, env) ==
  IF k > Len(args) THEN env
  ELSE Let(IndexFrom(args[k], "=", 1), LAMBDA eq :
    ExportLoop(args, k + 1,
               IF eq > 1
               THEN SetKey(env, Take(args[k], eq - 1), Drop(args[k], eq + 1))
               ELSE env))

\* testExpr: the unary tests on two arguments, the binary tests on three,
\* then the negation; an argument list no case answers is false
RECURSIVE testExpr(_, _, _)
testExpr(args, ctx, tree) ==
  LET yes == ShellResult(<<>>, <<>>, 0)
      no == ShellResult(<<>>, <<>>, 1)
      Answer(b) == IF b THEN yes ELSE no
  IN
  IF Len(args) = 0 THEN no
  ELSE IF Len(args) = 2 /\ args[1] \in {<<"-", "f">>, <<"-", "e">>}
  THEN Answer(groupFileExists(tree, resolvePath(args[2], ctx.cwd)).value = <<"true">>)
  ELSE IF Len(args) = 2 /\ args[1] = <<"-", "d">>
  THEN Answer(listGroupFiles(tree, resolvePath(args[2], ctx.cwd)).err = <<>>)
  ELSE IF Len(args) = 2 /\ args[1] = <<"-", "z">> THEN Answer(Len(args[2]) = 0)
  ELSE IF Len(args) = 2 /\ args[1] = <<"-", "n">> THEN Answer(Len(args[2]) > 0)
  ELSE IF Len(args) = 3 /\ args[2] \in {<<"=">>, <<"=", "=">>} THEN Answer(args[1] = args[3])
  ELSE IF Len(args) = 3 /\ args[2] = <<"!", "=">> THEN Answer(args[1] # args[3])
  ELSE IF Len(args) = 3 /\ args[2] = <<"-", "e", "q">>
  THEN Answer(NumGe(ToNumber(args[1]), ToNumber(args[3]))
              /\ NumLe(ToNumber(args[1]), ToNumber(args[3])))
  ELSE IF Len(args) = 3 /\ args[2] = <<"-", "n", "e">>
  THEN Answer(~(NumGe(ToNumber(args[1]), ToNumber(args[3]))
                /\ NumLe(ToNumber(args[1]), ToNumber(args[3]))))
  ELSE IF Len(args) = 3 /\ args[2] = <<"-", "l", "t">>
  THEN Answer(NumGt(ToNumber(args[3]), ToNumber(args[1])))
  ELSE IF Len(args) = 3 /\ args[2] = <<"-", "l", "e">>
  THEN Answer(NumLe(ToNumber(args[1]), ToNumber(args[3])))
  ELSE IF Len(args) = 3 /\ args[2] = <<"-", "g", "t">>
  THEN Answer(NumGt(ToNumber(args[1]), ToNumber(args[3])))
  ELSE IF Len(args) = 3 /\ args[2] = <<"-", "g", "e">>
  THEN Answer(NumGe(ToNumber(args[1]), ToNumber(args[3])))
  ELSE IF args[1] = <<"!">>
  THEN Answer(testExpr(Tail(args), ctx, tree).exitCode # 0)
  ELSE no

\* the letter a RegExp with the i flag compares: an upper-case ASCII letter
\* is taken for its lower-case one
ToLower(c) ==
  IF CharCode(c) >= CharCode("A") /\ CharCode(c) <= CharCode("Z")
  THEN CodeUnits[CharCode(c) + (CharCode("a") - CharCode("A"))]
  ELSE c

\* arr.slice(0, n) for a JavaScript number n: NaN counts as 0, a negative n
\* counts from the end
SliceTo(arr, n) ==
  IF n.nan THEN <<>>
  ELSE IF n.v < 0 THEN Take(arr, IF Len(arr) + n.v > 0 THEN Len(arr) + n.v ELSE 0)
  ELSE Take(arr, IF n.v < Len(arr) THEN n.v ELSE Len(arr))

\* case 'grep', up to the slice of -m: the pattern, the text and the lines
\* selected.  The pattern is a RegExp without special characters: re.test(l)
\* holds when l contains it.
grepLines(args, ctx, stdin, tree) ==
  Let(parseFlags(args, <<<<"e">>, <<"m">>>>), LAMBDA pf :
  Let(IF <<"e">> \in DOMAIN pf.flags THEN [pattern |-> pf.flags[<<"e">>], operands |-> pf.operands]
      ELSE IF Len(pf.operands) > 0
      THEN [pattern |-> Head(pf.operands), operands |-> Tail(pf.operands)]
      ELSE [pattern |-> <<>>, operands |-> <<>>], LAMBDA po :
  Let(IF Len(po.operands) > 0
      THEN OrEmpty(safeRead(tree, resolvePath(po.operands[1], ctx.cwd)))
      ELSE stdin, LAMBDA text :
    LET Fold(s) == IF <<"i">> \in DOMAIN pf.flags
                   THEN [k \in 1..Len(s) |-> ToLower(s[k])] ELSE s
        Selected(l) == Includes(Fold(l), Fold(po.pattern)) # (<<"v">> \in DOMAIN pf.flags)
    IN [flags |-> pf.flags,
        all |-> SplitChar(text, "\n"),
        lines |-> IF <<"m">> \in DOMAIN pf.flags
                  THEN SliceTo(SelectSeq(SplitChar(text, "\n"), Selected),
                               parseFloat(pf.flags[<<"m">>]))
                  ELSE SelectSeq(SplitChar(text, "\n"), Selected)])))

\* case 'grep', the output: the count of -c, the numbering of -n
\* (all.indexOf(l) + 1), and exit code 1 when no line is left
cmdGrep(args, ctx, stdin, tree) ==
  Let(grepLines(args, ctx, stdin, tree), LAMBDA g :
    IF <<"c">> \in DOMAIN g.flags THEN ok(NatToStr(Len(g.lines)) \o <<"\n">>)
    ELSE Let(IF <<"n">> \in DOMAIN g.flags
             THEN [k \in 1..Len(g.lines) |->
                     NatToStr(MinOf({q \in 1..Len(g.all) : g.all[q] = g.lines[k]}))
                       \o <<":">> \o g.lines[k]]
             ELSE g.lines, LAMBDA lines :
      IF Len(lines) > 0 THEN ok(Join(lines, <<"\n">>) \o <<"\n">>) ELSE fail(<<>>, 1)))

\* the set SUPPORTED_COMMANDS of lines 660-666
SUPPORTED_COMMANDS ==
  {<<"e", "c", "h", "o">>, <<"p", "r", "i", "n", "t", "f">>, <<"c", "a", "t">>, <<"h", "e", "a", "d">>, <<"t", "a", "i", "l">>,
   <<"w", "c">>, <<"g", "r", "e", "p">>, <<"s", "o", "r", "t">>, <<"u", "n", "i", "q">>, <<"t", "r">>,
   <<"c", "u", "t">>, <<"s", "e", "d">>, <<"a", "w", "k">>, <<"l", "s">>, <<"m", "k", "d", "i", "r">>,
   <<"c", "p">>, <<"m", "v">>, <<"r", "m">>, <<"t", "o", "u", "c", "h">>, <<"p", "w", "d">>,
   <<"c", "d">>, <<"d", "a", "t", "e">>, <<"e", "n", "v">>, <<"p", "r", "i", "n", "t", "e", "n", "v">>, <<"e", "x", "p", "o", "r", "t">>,
   <<"s", "l", "e", "e", "p">>, <<"s", "e", "q">>, <<"t", "r", "u", "e">>, <<"f", "a", "l", "s", "e">>, <<"t", "e", "s", "t">>,
   <<"b", "a", "s", "e", "6", "4">>, <<"m", "d", "5", "s", "u", "m">>, <<"s", "h", "a", "2", "5", "6", "s", "u", "m">>, <<"t", "e", "e">>, <<"b", "a", "s", "e", "n", "a", "m", "e">>,
   <<"d", "i", "r", "n", "a", "m", "e">>, <<"x", "a", "r", "g", "s">>, <<"r", "e", "v">>, <<"y", "e", "s">>, <<"j", "q">>,
   <<"w", "h", "i", "c", "h">>, <<"c", "o", "m", "m", "a", "n", "d">>}

NotDash(a) == ~StartsWith(a, <<"-">>)

\* case 'which' and case 'command': the first argument that does not start
\* with a dash is looked up in SUPPORTED_COMMANDS
cmdWhich(name, args) ==
  Let(SelectSeq(args, NotDash), LAMBDA rest :
  Let(IF Len(rest) > 0 THEN rest[1] ELSE <<>>, LAMBDA target :
    IF target \in SUPPORTED_COMMANDS
    THEN ok(<<"/", "u", "s", "r", "/", "b", "i", "n", "/">> \o target \o <<"\n">>)
    ELSE fail(name \o <<":", " ">> \o target \o <<":", " ", "n", "o", "t", " ", "f", "o", "u", "n", "d">>, 1)))

\* the case labels of the switch of dispatch
BuiltinNames ==
  {<<"e", "c", "h", "o">>, <<"p", "r", "i", "n", "t", "f">>, <<"c", "a", "t">>, <<"h", "e", "a", "d">>, <<"t", "a", "i", "l">>, <<"w", "c">>, <<"g", "r", "e", "p">>, <<"s", "o", "r", "t">>, <<"u", "n", "i", "q">>, <<"t", "r">>,
   <<"c", "u", "t">>, <<"s", "e", "d">>, <<"a", "w", "k">>, <<"l", "s">>, <<"m", "k", "d", "i", "r">>, <<"t", "o", "u", "c", "h">>, <<"c", "p">>, <<"m", "v">>, <<"r", "m">>, <<"p", "w", "d">>, <<"c", "d">>,
   <<"d", "a", "t", "e">>, <<"e", "n", "v">>, <<"p", "r", "i", "n", "t", "e", "n", "v">>, <<"e", "x", "p", "o", "r", "t">>, <<"s", "l", "e", "e", "p">>, <<"s", "e", "q">>, <<"t", "r", "u", "e">>, <<"f", "a", "l", "s", "e">>, <<"t", "e", "s", "t">>,
   <<"[">>, <<"b", "a", "s", "e", "6", "4">>, <<"m", "d", "5", "s", "u", "m">>, <<"s", "h", "a", "2", "5", "6", "s", "u", "m">>, <<"t", "e", "e">>, <<"b", "a", "s", "e", "n", "a", "m", "e">>, <<"d", "i", "r", "n", "a", "m", "e">>, <<"x", "a", "r", "g", "s">>,
   <<"r", "e", "v">>, <<"y", "e", "s">>, <<"j", "q">>, <<"w", "h", "i", "c", "h">>, <<"c", "o", "m", "m", "a", "n", "d">>}

\* case 'ls': the entries of operands[0] || '.', those that start with a dot
\* left out unless -a is given, one per line with -1 or -l
cmdLs(args, ctx, tree) ==
  Let(parseFlags(args, <<>>), LAMBDA pf :
  Let(IF Len(pf.operands) > 0 /\ Len(pf.operands[1]) > 0 THEN pf.operands[1] ELSE Dot,
      LAMBDA dir :
  Let(listGroupFiles(tree, resolvePath(dir, ctx.cwd)), LAMBDA ls :
    IF ls.err # <<>>
    THEN fail(<<"l", "s", ":", " ", "c", "a", "n", "n", "o", "t", " ", "a", "c", "c", "e", "s", "s", " ", "'">> \o dir \o <<"'", ":", " ", "N", "o", " ", "s", "u", "c", "h", " ", "d", "i", "r", "e", "c", "t", "o", "r", "y">>, 1)
    ELSE LET Shown(e) == <<"a">> \in DOMAIN pf.flags \/ ~StartsWith(e, Dot)
             sep == IF <<"1">> \in DOMAIN pf.flags \/ <<"l">> \in DOMAIN pf.flags
                    THEN <<"\n">> ELSE <<" ", " ">>
         IN ok(Join(SelectSeq(ls.value, Shown), sep) \o <<"\n">>))))

\* the default case: exit code 127
CommandNotFound == 127

\* variant of the default case whose message does not name the command
notFoundMessage_generic(name) == <<"command not found">>

notFoundMessage(name) ==
  name \o <<": command not found. Available: echo, cat, head, tail, grep, sort, sed, awk, cut, tr, uniq, wc, ls, mkdir, cp, mv, rm, touch, pwd, cd, date, sleep, seq, base64, jq, tee, xargs, test, rev, basename, dirname. For complex logic, use the \"javascript\" tool instead.">>

\* the advance of Date.now() - ctx.startedAt by ms; the clock is kept up to
\* ElapsedCap, above every timeout, which checkTimeout cannot tell from
\* later
TimeoutSecs == {0, 1}
TickMs == 1000
ElapsedCap == MsPerSecond + TickMs
advance(elapsed, ms) ==
  IF elapsed + ms < ElapsedCap THEN elapsed + ms ELSE ElapsedCap

\* case 'xargs', lines 599-600: the text handed to runSingle
xargsLine(args, stdin) ==
  Join(args, <<" ">>) \o <<" ">> \o
    Join(FilterNonEmpty(SplitChar(Trim(stdin), "\n")), <<" ">>)

\* dispatch and runSingle call each other: xargs re-enters runSingle
RECURSIVE runSingle(_, _, _, _)

dispatch(name, args, ctx, stdin, tree) ==
  CASE name = cmdEcho ->
         Returned(ok(Join(args, <<" ">>) \o <<"\n">>), ctx, tree)
    [] name = cmdCat ->
         IF Len(args) = 0 /\ Len(stdin) > 0
         THEN Returned(ok(stdin), ctx, tree)
         ELSE Returned(CatLoop(args, 1, ctx, stdin, tree, <<>>), ctx, tree)
    [] name = cmdTr ->
         IF Len(args) >= 2 /\ args[1] = <<"-", "d">> /\ Len(args[2]) > 0
         THEN Returned(ok(DeleteChars(stdin, args[2])), ctx, tree)
         ELSE IF Len(args) >= 2
         THEN Returned(ok(TrLoop(stdin, args[1], args[2], 1)), ctx, tree)
         ELSE Returned(fail(<<"tr: missing operands">>, 1), ctx, tree)
    [] name = cmdMkdir ->
         MkdirLoop(parseFlags(args, <<>>).operands, 1, ctx, tree)
    [] name = cmdPwd ->
         Returned(ok((IF ctx.cwd = Dot THEN WorkspacePrefix
                      ELSE WorkspacePrefix \o <<"/">> \o ctx.cwd) \o <<"\n">>),
                  ctx, tree)
    [] name = cmdCd ->
         Let(resolvePath(IF Len(args) > 0 THEN args[1] ELSE Dot, ctx.cwd),
             LAMBDA cwd :
               Returned(ok(<<>>),
                        [ctx EXCEPT !.cwd = cwd,
                                    !.env = SetKey(@, <<"P", "W", "D">>,
                                                   WorkspacePrefix \o <<"/">> \o cwd)],
                        tree))
    [] name = cmdSleep ->
         Returned(ok(<<>>),
                  [ctx EXCEPT !.elapsed = advance(@, sleepMs(args))], tree)
    [] name = cmdSeq ->
         Let(seqArgs(args), LAMBDA a :
         Let(SeqLoop(a.start, a.step, a.end, <<>>), LAMBDA loop :
           IF loop.done
           THEN Returned(ok(Join([k \in 1..Len(loop.out) |-> NumToStr(loop.out[k])],
                                 <<"\n">>) \o <<"\n">>), ctx, tree)
           ELSE Hangs(ctx, tree)))
    [] name = <<"c", "p">> -> cmdCp(args, ctx, tree)
    [] name = <<"m", "v">> -> cmdMv(args, ctx, tree)
    [] name = <<"r", "m">> ->
         Let(parseFlags(args, <<>>), LAMBDA pf :
           RmLoop(pf.operands, 1, <<"f">> \in DOMAIN pf.flags, ctx, tree))
    [] name = <<"e", "x", "p", "o", "r", "t">> ->
         Returned(ok(<<>>), [ctx EXCEPT !.env = ExportLoop(args, 1, @)], tree)
    [] name = <<"t", "e", "s", "t">> ->
         Returned(testExpr(args, ctx, tree), ctx, tree)
    [] name = <<"[">> ->
         Returned(testExpr(Take(args, Len(args) - 1), ctx, tree), ctx, tree)
    [] name = <<"g", "r", "e", "p">> ->
         Returned(cmdGrep(args, ctx, stdin, tree), ctx, tree)
    [] name = <<"l", "s">> -> Returned(cmdLs(args, ctx, tree), ctx, tree)
    [] name = <<"t", "o", "u", "c", "h">> -> TouchLoop(args, 1, ctx, tree)
    [] name \in {<<"w", "h", "i", "c", "h">>, <<"c", "o", "m", "m", "a", "n", "d">>} ->
         Returned(cmdWhich(name, args), ctx, tree)
    [] name = <<"x", "a", "r", "g", "s">> ->
         IF Len(args) = 0 THEN Returned(ok(stdin), ctx, tree)
         ELSE runSingle(xargsLine(args, stdin), ctx, <<>>, tree)
    [] name = cmdTrue -> Returned(ok(<<>>), ctx, tree)
    [] name = cmdFalse -> Returned(fail(<<>>, 1), ctx, tree)
    [] name \notin BuiltinNames ->
         Returned(fail(notFoundMessage(name), CommandNotFound), ctx, tree)

\* ------------------------------------------------------------------------
\* Single command execution (runSingle)
\* ------------------------------------------------------------------------

\* /^[A-Za-z_]\w*=/.test(name)
\* variant of line 202 that takes no token for an assignment
isAssignment_never(name) == FALSE

isAssignment(name) ==
  /\ Len(name) > 0
  /\ name[1] \in WordChars \ Digits
  /\ CharAt(name, WordEnd(name, 2) + 1) = "="

\* variant of lines 210-220 in which a builtin that failed writes no file
applyRedirect_skipOnFailure(redir, d) ==
  IF redir.kind = "none" \/ d.res.exitCode # 0
  THEN d
  ELSE Let(resolvePath(redir.file, d.ctx.cwd), LAMBDA path :
       Let(writeGroupFile(d.fs, path,
                          IF redir.kind = "write" THEN d.res.stdout
                          ELSE StrPlus(safeRead(d.fs, path), d.res.stdout)),
           LAMBDA w :
         IF w.err # <<>> THEN Thrown(w.err, d.ctx, w.fs)
         ELSE Returned(ShellResult(<<>>, d.res.stderr, d.res.exitCode), d.ctx, w.fs)))

\* lines 210-220 of runSingle: the redirect applied to the result of dispatch
applyRedirect(redir, d) ==
  IF redir.kind = "write"
  THEN Let(writeGroupFile(d.fs, resolvePath(redir.file, d.ctx.cwd), d.res.stdout),
           LAMBDA w :
         IF w.err # <<>> THEN Thrown(w.err, d.ctx, w.fs)
         ELSE Returned(ShellResult(<<>>, d.res.stderr, d.res.exitCode), d.ctx, w.fs))
  ELSE IF redir.kind = "append"
  THEN Let(resolvePath(redir.file, d.ctx.cwd), LAMBDA path :
       Let(safeRead(d.fs, path), LAMBDA existing :
       Let(writeGroupFile(d.fs, path, StrPlus(existing, d.res.stdout)), LAMBDA w :
         IF w.err # <<>> THEN Thrown(w.err, d.ctx, w.fs)
         ELSE Returned(ShellResult(<<>>, d.res.stderr, d.res.exitCode), d.ctx, w.fs))))
  ELSE d

runSingle(raw, ctx, stdin, tree) ==
  IF timedOut(ctx) THEN Thrown(TimeoutMessage, ctx, tree)
  ELSE
    Let(extractRedirect(raw), LAMBDA redir :
    Let(tokenize(expandVars(redir.cmdStr, ctx.env)), LAMBDA tokens :
    IF Len(tokens) = 0 THEN Returned(EmptyResult, ctx, tree)
    ELSE IF isAssignment(tokens[1]) /\ Len(tokens) = 1
    THEN Let(IndexFrom(tokens[1], "=", 1), LAMBDA eq :
           Returned(EmptyResult,
                    [ctx EXCEPT !.env = SetKey(@, Take(tokens[1], eq - 1),
                                               Drop(tokens[1], eq + 1))],
                    tree))
    ELSE Let(dispatch(tokens[1], Tail(tokens), ctx, stdin, tree), LAMBDA d :
           [(IF d.status # "ok" THEN d ELSE applyRedirect(redir, d))
              EXCEPT !.calls = <<[name |-> tokens[1], args |-> Tail(tokens),
                                  stdin |-> stdin, status |-> d.status,
                                  res |-> d.res, fs |-> d.fs]>>])))

\* ------------------------------------------------------------------------
\* The inputs of executeShell
\* ------------------------------------------------------------------------

\* false && echo never
lineFalseAndEcho ==
  <<"f", "a", "l", "s", "e", " ", "&", "&", " ", "e", "c", "h", "o", " ", "n", "e", "v", "e", "r">>

\* false || echo yes
lineFalseOrEcho ==
  <<"f", "a", "l", "s", "e", " ", "|", "|", " ", "e", "c", "h", "o", " ", "y", "e", "s">>

\* true || echo no ; echo more
lineTrueOrEcho ==
  <<"t", "r", "u", "e", " ", "|", "|", " ", "e", "c", "h", "o", " ", "n", "o", " ", ";", " ", "e", "c", "h", "o", " ", "m", "o", "r", "e">>

\* echo a && echo b
lineEchoAndEcho ==
  <<"e", "c", "h", "o", " ", "a", " ", "&", "&", " ", "e", "c", "h", "o", " ", "b">>

\* false ; echo c
lineFalseSemiEcho ==
  <<"f", "a", "l", "s", "e", " ", ";", " ", "e", "c", "h", "o", " ", "c">>

\* echo hi | tr h H
linePipeTr ==
  <<"e", "c", "h", "o", " ", "h", "i", " ", "|", " ", "t", "r", " ", "h", " ", "H">>

\* cat nofile | echo x | cat
linePipeFailing ==
  <<"c", "a", "t", " ", "n", "o", "f", "i", "l", "e", " ", "|", " ", "e", "c", "h", "o", " ", "x", " ", "|", " ", "c", "a", "t">>

\* echo x > f
lineWriteF ==
  <<"e", "c", "h", "o", " ", "x", " ", ">", " ", "f">>

\* cat nofile > f
lineWriteFailing ==
  <<"c", "a", "t", " ", "n", "o", "f", "i", "l", "e", " ", ">", " ", "f">>

\* mkdir d ; echo x > d ; echo after
lineWriteDir ==
  <<"m", "k", "d", "i", "r", " ", "d", " ", ";", " ", "e", "c", "h", "o", " ", "x", " ", ">", " ", "d", " ", ";", " ", "e", "c", "h", "o", " ", "a", "f", "t", "e", "r">>

\* echo a >> g ; echo b >> g
lineAppendTwice ==
  <<"e", "c", "h", "o", " ", "a", " ", ">", ">", " ", "g", " ", ";", " ", "e", "c", "h", "o", " ", "b", " ", ">", ">", " ", "g">>

\*  echo n >>f 
lineAppendOld ==
  <<" ", "e", "c", "h", "o", " ", "n", " ", ">", ">", "f", " ">>

\* cd d ; echo y > f && cat /workspace/d/f
lineCdWrite ==
  <<"c", "d", " ", "d", " ", ";", " ", "e", "c", "h", "o", " ", "y", " ", ">", " ", "f", " ", "&", "&", " ", "c", "a", "t", " ", "/", "w", "o", "r", "k", "s", "p", "a", "c", "e", "/", "d", "/", "f">>

\* sleep 2 ; echo late
lineSleepEcho ==
  <<"s", "l", "e", "e", "p", " ", "2", " ", ";", " ", "e", "c", "h", "o", " ", "l", "a", "t", "e">>

\* seq 3
lineSeqUp ==
  <<"s", "e", "q", " ", "3">>

\* seq 3 -1 2 | cat
lineSeqDown ==
  <<"s", "e", "q", " ", "3", " ", "-", "1", " ", "2", " ", "|", " ", "c", "a", "t">>

\* seq 2 0 1 ; echo end
lineSeqZeroStep ==
  <<"s", "e", "q", " ", "2", " ", "0", " ", "1", " ", ";", " ", "e", "c", "h", "o", " ", "e", "n", "d">>

\* seq 1 0 2
lineSeqZeroStepEmpty ==
  <<"s", "e", "q", " ", "1", " ", "0", " ", "2">>

\* ;; echo z
lineEmptySegments ==
  <<";", ";", " ", "e", "c", "h", "o", " ", "z">>

\* nosuch a || X=1 ; echo $X
lineUnknown ==
  <<"n", "o", "s", "u", "c", "h", " ", "a", " ", "|", "|", " ", "X", "=", "1", " ", ";", " ", "e", "c", "h", "o", " ", "$", "X">>

\* echo x > . ; echo after
lineWriteDot ==
  <<"e", "c", "h", "o", " ", "x", " ", ">", " ", ".", " ", ";", " ", "e", "c", "h", "o", " ", "a", "f", "t", "e", "r">>

\* F=g ; echo x > $F
lineRedirectVar ==
  <<"F", "=", "g", " ", ";", " ", "e", "c", "h", "o", " ", "x", " ", ">", " ", "$", "F">>

\* echo x > - ; cat -
lineWriteDash ==
  <<"e", "c", "h", "o", " ", "x", " ", ">", " ", "-", " ", ";", " ", "c", "a", "t", " ", "-">>

\* cat f
lineCatF ==
  <<"c", "a", "t", " ", "f">>

\* cat /workspace/f
lineCatWorkspaceF ==
  <<"c", "a", "t", " ", "/", "w", "o", "r", "k", "s", "p", "a", "c", "e", "/", "f">>

\* mkdir a f/x ; echo after
lineMkdirPartial ==
  <<"m", "k", "d", "i", "r", " ", "a", " ", "f", "/", "x", " ", ";", " ", "e", "c", "h", "o", " ", "a", "f", "t", "e", "r">>

\* rm f nofile
lineRmPartial ==
  <<"r", "m", " ", "f", " ", "n", "o", "f", "i", "l", "e">>

\* cd d ; export Y=2 ; echo $Y$X
lineCdExport ==
  <<"c", "d", " ", "d", " ", ";", " ", "e", "x", "p", "o", "r", "t", " ", "Y", "=", "2", " ", ";", " ", "e", "c", "h", "o", " ", "$", "Y", "$", "X">>

\* X=1 | echo $X
lineAssignPipe ==
  <<"X", "=", "1", " ", "|", " ", "e", "c", "h", "o", " ", "$", "X">>

\* X=1 echo hi ; echo $X
lineAssignArgs ==
  <<"X", "=", "1", " ", "e", "c", "h", "o", " ", "h", "i", " ", ";", " ", "e", "c", "h", "o", " ", "$", "X">>

\* test -z ""
lineTestZEmpty ==
  <<"t", "e", "s", "t", " ", "-", "z", " ", "\"", "\"">>

\* test -z "x"
lineTestZX ==
  <<"t", "e", "s", "t", " ", "-", "z", " ", "\"", "x", "\"">>

\* test 3 -lt 5
lineTestLt ==
  <<"t", "e", "s", "t", " ", "3", " ", "-", "l", "t", " ", "5">>

\* grep -c zz f
lineGrepCount ==
  <<"g", "r", "e", "p", " ", "-", "c", " ", "z", "z", " ", "f">>

\* grep zz f
lineGrepNone ==
  <<"g", "r", "e", "p", " ", "z", "z", " ", "f">>

\* echo Ab | grep -i -n b
lineGrepIgnoreCase ==
  <<"e", "c", "h", "o", " ", "A", "b", " ", "|", " ", "g", "r", "e", "p", " ", "-", "i", " ", "-", "n", " ", "b">>

\* grep -v -m 1 -e zz f
lineGrepInvert ==
  <<"g", "r", "e", "p", " ", "-", "v", " ", "-", "m", " ", "1", " ", "-", "e", " ", "z", "z", " ", "f">>

\* nosuch > f
lineUnknownWrite ==
  <<"n", "o", "s", "u", "c", "h", " ", ">", " ", "f">>

\* mkdir -p a/b ; ls a ; test -d a/b
lineMkdirLs ==
  <<"m", "k", "d", "i", "r", " ", "-", "p", " ", "a", "/", "b", " ", ";", " ", "l", "s", " ", "a", " ", ";", " ", "t", "e", "s", "t", " ", "-", "d", " ", "a", "/", "b">>

\* echo a ;;
lineDoubleSemi ==
  <<"e", "c", "h", "o", " ", "a", " ", ";", ";">>

\* echo "a;'b" && echo 'c||"d'
lineQuotedOps ==
  <<"e", "c", "h", "o", " ", "\"", "a", ";", "'", "b", "\"", " ", "&", "&", " ", "e", "c", "h", "o", " ", "'", "c", "|", "|", "\"", "d", "'">>

\* echo a ;
lineTrailingSemi ==
  <<"e", "c", "h", "o", " ", "a", " ", ";">>

\* test ! = x ; test = x
lineTestNotEq ==
  <<"t", "e", "s", "t", " ", "!", " ", "=", " ", "x", " ", ";", " ", "t", "e", "s", "t", " ", "=", " ", "x">>

\* test ! -f f ; test -f f
lineTestNotFile ==
  <<"t", "e", "s", "t", " ", "!", " ", "-", "f", " ", "f", " ", ";", " ", "t", "e", "s", "t", " ", "-", "f", " ", "f">>

\* test ! ! a = a ; test ! a = a
lineTestNotNot ==
  <<"t", "e", "s", "t", " ", "!", " ", "!", " ", "a", " ", "=", " ", "a", " ", ";", " ", "t", "e", "s", "t", " ", "!", " ", "a", " ", "=", " ", "a">>

\* echo '$HOME' "${HOME}" $NOPE.
lineExpandQuoted ==
  <<"e", "c", "h", "o", " ", "'", "$", "H", "O", "M", "E", "'", " ", "\"", "$", "{", "H", "O", "M", "E", "}", "\"", " ", "$", "N", "O", "P", "E", ".">>

\* A=1 ; B=2 ; echo $A${B}
lineExpandAdjacent ==
  <<"A", "=", "1", " ", ";", " ", "B", "=", "2", " ", ";", " ", "e", "c", "h", "o", " ", "$", "A", "$", "{", "B", "}">>

\* touch f n a/b
lineTouch ==
  <<"t", "o", "u", "c", "h", " ", "f", " ", "n", " ", "a", "/", "b">>

\* touch f f/x ; echo after
lineTouchUnder ==
  <<"t", "o", "u", "c", "h", " ", "f", " ", "f", "/", "x", " ", ";", " ", "e", "c", "h", "o", " ", "a", "f", "t", "e", "r">>

\* rm -f nofile f
lineRmForce ==
  <<"r", "m", " ", "-", "f", " ", "n", "o", "f", "i", "l", "e", " ", "f">>

\* rm -rf sub nofile
lineRmRecursive ==
  <<"r", "m", " ", "-", "r", "f", " ", "s", "u", "b", " ", "n", "o", "f", "i", "l", "e">>

\* which -a grep ; command -v nosuch
lineWhich ==
  <<"w", "h", "i", "c", "h", " ", "-", "a", " ", "g", "r", "e", "p", " ", ";", " ", "c", "o", "m", "m", "a", "n", "d", " ", "-", "v", " ", "n", "o", "s", "u", "c", "h">>

\* which [ ; [ a = a ]
lineWhichBracket ==
  <<"w", "h", "i", "c", "h", " ", "[", " ", ";", " ", "[", " ", "a", " ", "=", " ", "a", " ", "]">>

\* rm f -f -- -f nofile
lineRmDashDash ==
  <<"r", "m", " ", "f", " ", "-", "f", " ", "-", "-", " ", "-", "f", " ", "n", "o", "f", "i", "l", "e">>

\* grep -e -- -c -- -v f
lineGrepDashValue ==
  <<"g", "r", "e", "p", " ", "-", "e", " ", "-", "-", " ", "-", "c", " ", "-", "-", " ", "-", "v", " ", "f">>

\* cd a/./b//.. ; cd ../..
lineCdNormal ==
  <<"c", "d", " ", "a", "/", ".", "/", "b", "/", "/", ".", ".", " ", ";", " ", "c", "d", " ", ".", ".", "/", ".", ".">>

\* cd a ; cd /workspace/a ; pwd
lineCdAbsolute ==
  <<"c", "d", " ", "a", " ", ";", " ", "c", "d", " ", "/", "w", "o", "r", "k", "s", "p", "a", "c", "e", "/", "a", " ", ";", " ", "p", "w", "d">>

\* cp n f ; mv n f
lineCpMv ==
  <<"c", "p", " ", "n", " ", "f", " ", ";", " ", "m", "v", " ", "n", " ", "f">>

\* cp f f ; mv f ./f
lineMvSame ==
  <<"c", "p", " ", "f", " ", "f", " ", ";", " ", "m", "v", " ", "f", " ", ".", "/", "f">>

\* echo x '>' f | xargs echo
lineXargsRedirect ==
  <<"e", "c", "h", "o", " ", "x", " ", "'", ">", "'", " ", "f", " ", "|", " ", "x", "a", "r", "g", "s", " ", "e", "c", "h", "o">>

\* echo $ HOME | tr -d ' ' | xargs echo
lineXargsExpand ==
  <<"e", "c", "h", "o", " ", "$", " ", "H", "O", "M", "E", " ", "|", " ", "t", "r", " ", "-", "d", " ", "'", " ", "'", " ", "|", " ", "x", "a", "r", "g", "s", " ", "e", "c", "h", "o">>

\* A=$ ; echo ${A}HOME
lineExpandValue ==
  <<"A", "=", "$", " ", ";", " ", "e", "c", "h", "o", " ", "$", "{", "A", "}", "H", "O", "M", "E">>

\* echo m >> f
lineAppendOther ==
  <<"e", "c", "h", "o", " ", "m", " ", ">", ">", " ", "f">>

CommandLines ==
  {lineExpandValue,
   lineXargsExpand,
   lineXargsRedirect,
   lineMvSame,
   lineCpMv,
   lineCdAbsolute,
   lineCdNormal,
   lineGrepDashValue,
   lineRmDashDash,
   lineWhichBracket,
   lineWhich,
   lineRmRecursive,
   lineRmForce,
   lineTouchUnder,
   lineTouch,
   lineExpandAdjacent,
   lineExpandQuoted,
   lineTestNotNot,
   lineTestNotFile,
   lineTestNotEq,
   lineTrailingSemi,
   lineQuotedOps,
   lineDoubleSemi,
   lineFalseAndEcho,
   lineFalseOrEcho,
   lineTrueOrEcho,
   lineEchoAndEcho,
   lineFalseSemiEcho,
   linePipeTr,
   linePipeFailing,
   lineWriteF,
   lineWriteFailing,
   lineWriteDir,
   lineAppendTwice,
   lineAppendOld,
   lineCdWrite,
   lineSleepEcho,
   lineSeqUp,
   lineSeqDown,
   lineSeqZeroStep,
   lineSeqZeroStepEmpty,
   lineEmptySegments,
   lineUnknown,
   lineWriteDot,
   lineRedirectVar,
   lineWriteDash,
   lineCatF,
   lineCatWorkspaceF,
   lineMkdirPartial,
   lineRmPartial,
   lineCdExport,
   lineAssignPipe,
   lineAssignArgs,
   lineTestZEmpty,
   lineTestZX,
   lineTestLt,
   lineGrepCount,
   lineGrepNone,
   lineGrepIgnoreCase,
   lineGrepInvert,
   lineUnknownWrite,
   lineMkdirLs}

\* the environment overlays a caller passes (none in executeTool)
NoOverlay == <<>>
EnvOverlays == {NoOverlay}

\* { HOME: '/workspace', PATH: '/usr/bin', PWD: '/workspace', ...env }
defaultEnv(overlay) ==
  overlay @@
  (<<"H", "O", "M", "E">> :> WorkspacePrefix) @@
  (<<"P", "A", "T", "H">> :> <<"/", "u", "s", "r", "/", "b", "i", "n">>) @@
  (<<"P", "W", "D">> :> WorkspacePrefix)

\* the workspaces
GroupIds == {"g1"}

\* a workspace that holds the file f, the directory sub with a file, and the
\* file the store keeps for the path /workspace/f (a directory "workspace"
\* of the group directory with a file f)
SeededFS ==
  (<<>> :> DirEntry) @@
  (<<<<"f">>>> :> FileEntry(<<"o", "l", "d", "\n">>)) @@
  (<<Tail(WorkspacePrefix)>> :> DirEntry) @@
  (<<Tail(WorkspacePrefix), <<"f">>>> :> FileEntry(<<"w", "\n">>)) @@
  (<<<<"s", "u", "b">>>> :> DirEntry) @@
  (<<<<"s", "u", "b">>, <<"k">>>> :> FileEntry(<<"k", "\n">>))

InitialTrees == {EmptyFS, SeededFS}

\* ------------------------------------------------------------------------
\* State
\* ------------------------------------------------------------------------

MaxInvocations == 2

AllSlots == {1, 2}

VARIABLES
  fs,        \* fs[g]: the workspace tree of group g
  inv,       \* inv[s]: the executeShell invocation of slot s
  invoked,   \* the number of calls of executeShell so far
  toolCall   \* the timeout of the last bash tool request and what was made of it

vars == <<fs, inv, invoked, toolCall>>

\* no bash tool request yet
NoToolCall == [called |-> FALSE, given |-> FALSE, requested |-> 0, timeoutSec |-> 0]

\* no append redirect is between its read and its write
NoPending ==
  [active |-> FALSE, raw |-> <<>>, path |-> <<>>, existing |-> <<>>,
   d |-> Returned(EmptyResult,
                  [groupId |-> "g1", cwd |-> Dot, env |-> <<>>, timeoutMs |-> 0,
                   elapsed |-> 0],
                  EmptyFS),
   treeBefore |-> EmptyFS]

\* the slot before its first call.  pc is "idle", "pipeline" (the for loop
\* of runPipeline), "pipe" (the for loop of runPipe), "done" (executeShell
\* has returned result), "hung" (a builtin never returns) or "rejected"
\* (executeShell has thrown to its caller).  threw and caught record the
\* exception the catch of executeShell received; log records, for every
\* call of runSingle made by runPipeline or runPipe, what it was given and
\* what it answered; segResults records, for every segment that has
\* answered, its index, its trailing operator and its result.
IdleSlot ==
  [pc |-> "idle", command |-> <<>>, timeoutSec |-> 0,
   ctx |-> [groupId |-> "g1", cwd |-> Dot, env |-> <<>>, timeoutMs |-> 0, elapsed |-> 0],
   segments |-> <<>>, segIdx |-> 0, lastResult |-> EmptyResult,
   parts |-> <<>>, partIdx |-> 0, pipeLast |-> EmptyResult,
   result |-> EmptyResult, threw |-> FALSE, caught |-> <<>>, log |-> <<>>,
   segResults |-> <<>>, pending |-> NoPending]

Init ==
  /\ fs \in [GroupIds -> InitialTrees]
  /\ inv = [s \in AllSlots |-> IdleSlot]
  /\ invoked = 0
  /\ toolCall = NoToolCall

\* ------------------------------------------------------------------------
\* Actions
\* ------------------------------------------------------------------------

Running(s) == inv[s].pc \in {"pipeline", "pipe"}

\* executeShell, lines 40-49: the context is built and runPipeline splits
\* the trimmed command
\* variant of lines 40-46 in which the context is a module-level object that
\* the calls of executeShell share: cwd and env are those the previous call
\* left
newContext_shared(prev, g, overlay, timeoutSec) ==
  [groupId |-> g,
   cwd |-> prev.cwd,
   env |-> prev.env @@ defaultEnv(overlay),
   timeoutMs |-> timeoutSec * MsPerSecond,
   elapsed |-> 0]

\* lines 40-46 of executeShell: the context of a call; prev, the context of
\* the call before it, is not read
newContext(prev, g, overlay, timeoutSec) ==
  [groupId |-> g,
   cwd |-> Dot,
   env |-> defaultEnv(overlay),
   timeoutMs |-> timeoutSec * MsPerSecond,
   elapsed |-> 0]

\* runPipeline, line 78, of the lines of CommandLines: the split of a line
\* reads the line only
segmentsOf == [c \in CommandLines |-> splitOnOperators(Trim(c))]

\* const segments = splitOnOperators(line), line 78, of the trimmed command
splitLine(command) ==
  IF command \in CommandLines THEN segmentsOf[command]
  ELSE splitOnOperators(Trim(command))

\* a call of executeShell with a command of the set lines and a timeout of
\* the set secs
InvokeFrom(s, lines, secs) ==
  /\ inv[s].pc \in {"idle", "done"}
  /\ invoked < MaxInvocations
  /\ \E command \in lines, timeoutSec \in secs,
        overlay \in EnvOverlays, g \in GroupIds :
       inv' = [inv EXCEPT ![s] =
                 [IdleSlot EXCEPT
                    !.pc = "pipeline",
                    !.command = command,
                    !.timeoutSec = timeoutSec,
                    !.ctx = newContext(inv[s].ctx, g, overlay, timeoutSec),
                    !.segments = splitLine(command),
                    !.segIdx = 1]]
  /\ invoked' = invoked + 1
  /\ UNCHANGED fs

Invoke(s) == InvokeFrom(s, CommandLines, TimeoutSecs) /\ UNCHANGED toolCall

\* variant of the catch that keeps the output produced so far
executeShellCatch_keepOutput(slot, err) ==
  [slot EXCEPT !.pc = "done",
               !.result = ShellResult(slot.lastResult.stdout, err, 1),
               !.threw = TRUE,
               !.caught = err]

\* the catch of executeShell, lines 50-56
executeShellCatch(slot, err) ==
  [slot EXCEPT !.pc = "done",
               !.result = ShellResult(<<>>, err, 1),
               !.threw = TRUE,
               !.caught = err]

\* variants of lines 96-97: `&&` never leaves the loop; `||` never leaves
\* the loop; `;` leaves the loop after a failure
shortCircuit_noAnd(op, res) ==
  op = <<"|", "|">> /\ res.exitCode = 0

shortCircuit_noOr(op, res) ==
  op = <<"&", "&">> /\ res.exitCode # 0

shortCircuit_semi(op, res) ==
  \/ op = <<"&", "&">> /\ res.exitCode # 0
  \/ op = <<"|", "|">> /\ res.exitCode = 0
  \/ op = <<";">> /\ res.exitCode # 0

\* lines 96-97 of runPipeline: the loop is left
shortCircuit(op, res) ==
  \/ op = <<"&", "&">> /\ res.exitCode # 0
  \/ op = <<"|", "|">> /\ res.exitCode = 0

\* the record of one call of runSingle
LogEntry(slot, part, raw, stdin, o, treeBefore) ==
  Let(extractRedirect(raw), LAMBDA redir :
  Let(resolvePath(redir.file, o.ctx.cwd), LAMBDA target :
    [seg |-> slot.segIdx, part |-> part, raw |-> raw, stdin |-> stdin,
     status |-> o.status, res |-> o.res, err |-> o.err, calls |-> o.calls,
     redirect |-> redir.kind, target |-> target,
     cwdBefore |-> slot.ctx.cwd,
     ctxBefore |-> slot.ctx, ctxAfter |-> o.ctx, fsBefore |-> treeBefore,
     before |-> safeRead(treeBefore, target),
     after |-> safeRead(o.fs, target),
     accepted |-> /\ o.calls # <<>>
                  /\ writeGroupFile(o.calls[1].fs, target, <<>>).err = <<>>]))

\* what a call of runSingle that has answered o leaves of the slot, before
\* the caller looks at the result
afterRunSingle(slot, entry, o) ==
  IF o.status = "thrown"
  THEN executeShellCatch([slot EXCEPT !.ctx = o.ctx, !.log = Append(@, entry)], o.err)
  ELSE IF o.status = "hang"
  THEN [slot EXCEPT !.pc = "hung", !.ctx = o.ctx, !.log = Append(@, entry)]
  ELSE [slot EXCEPT !.ctx = o.ctx, !.log = Append(@, entry)]

\* variant of lines 89-91: the output of the segments is accumulated
afterSegment_accumulate(slot, res) ==
  [slot EXCEPT
     !.pc = "pipeline",
     !.lastResult = [res EXCEPT !.stdout = slot.lastResult.stdout \o @],
     !.segResults = Append(@, [seg |-> slot.segIdx,
                               op |-> slot.segments[slot.segIdx].op,
                               res |-> res]),
     !.segIdx = IF shortCircuit(slot.segments[slot.segIdx].op, res)
                THEN Len(slot.segments) + 1
                ELSE @ + 1]

\* lines 95-97 of runPipeline, after the segment has answered res
afterSegment(slot, res) ==
  [slot EXCEPT
     !.pc = "pipeline",
     !.lastResult = res,
     !.segResults = Append(@, [seg |-> slot.segIdx,
                               op |-> slot.segments[slot.segIdx].op,
                               res |-> res]),
     !.segIdx = IF shortCircuit(slot.segments[slot.segIdx].op, res)
                THEN Len(slot.segments) + 1
                ELSE @ + 1]

\* variant of line 86 that skips no segment
isSkipped_never(cmd) == FALSE

\* line 86 of runPipeline: if (!cmd.trim()) continue
isSkipped(cmd) == Len(Trim(cmd)) = 0

\* one iteration of the loop of runPipeline, lines 82-93: the timeout check,
\* then the segment is skipped, handed to runPipe, or run by runSingle
SegmentStep(s) ==
  LET slot == inv[s]
      g    == slot.ctx.groupId
  IN
  /\ slot.pc = "pipeline"
  /\ slot.segIdx <= Len(slot.segments)
  /\ LET cmd == slot.segments[slot.segIdx].cmd IN
     IF timedOut(slot.ctx)
     THEN /\ inv' = [inv EXCEPT ![s] = executeShellCatch(slot, TimeoutMessage)]
          /\ UNCHANGED fs
     ELSE IF isSkipped(cmd)
     THEN /\ inv' = [inv EXCEPT ![s].segIdx = @ + 1]
          /\ UNCHANGED fs
     ELSE IF isPipe(cmd)
     THEN /\ inv' = [inv EXCEPT ![s] =
                       [slot EXCEPT !.pc = "pipe",
                                    !.parts = pipeParts(cmd),
                                    !.partIdx = 1,
                                    !.pipeLast = EmptyResult]]
          /\ UNCHANGED fs
     ELSE \E o \in {runSingle(Trim(cmd), slot.ctx, <<>>, fs[g])} :
          \E entry \in {LogEntry(slot, 0, Trim(cmd), <<>>, o, fs[g])} :
          LET next == afterRunSingle(slot, entry, o)
          IN /\ inv' = [inv EXCEPT ![s] =
                          IF o.status = "ok" THEN afterSegment(next, o.res) ELSE next]
             /\ fs' = [fs EXCEPT ![g] = o.fs]
  /\ UNCHANGED <<invoked, toolCall>>

\* variant of line 157 in which a stage that fails ends the pipe
afterStage_stopOnFailure(slot, res) ==
  [slot EXCEPT !.pipeLast = res,
               !.partIdx = IF res.exitCode # 0 THEN Len(slot.parts) + 1 ELSE @ + 1]

\* line 157 of runPipe: `last = await runSingle(part, ctx, last.stdout)`, and
\* the loop goes on whatever last.exitCode is
afterStage(slot, res) ==
  [slot EXCEPT !.pipeLast = res, !.partIdx = @ + 1]

\* one iteration of the loop of runPipe, lines 155-158
PipeStage(s) ==
  LET slot == inv[s]
      g    == slot.ctx.groupId
  IN
  /\ slot.pc = "pipe"
  /\ slot.partIdx <= Len(slot.parts)
  /\ IF timedOut(slot.ctx)
     THEN /\ inv' = [inv EXCEPT ![s] = executeShellCatch(slot, TimeoutMessage)]
          /\ UNCHANGED fs
     ELSE LET part == slot.parts[slot.partIdx] IN
          \E o \in {runSingle(part, slot.ctx, slot.pipeLast.stdout, fs[g])} :
          \E entry \in {LogEntry(slot, slot.partIdx, part, slot.pipeLast.stdout,
                                  o, fs[g])} :
          LET next == afterRunSingle(slot, entry, o)
          IN /\ inv' = [inv EXCEPT ![s] =
                          IF o.status = "ok"
                          THEN afterStage(next, o.res)
                          ELSE next]
             /\ fs' = [fs EXCEPT ![g] = o.fs]
  /\ UNCHANGED <<invoked, toolCall>>

\* the return of runPipe, line 160, and lines 95-97 of runPipeline
PipeEnd(s) ==
  /\ inv[s].pc = "pipe"
  /\ inv[s].partIdx > Len(inv[s].parts)
  /\ inv' = [inv EXCEPT ![s] = afterSegment(inv[s], inv[s].pipeLast)]
  /\ UNCHANGED <<fs, invoked, toolCall>>

\* the return of runPipeline, line 100, and of executeShell, line 49
Return(s) ==
  /\ inv[s].pc = "pipeline"
  /\ inv[s].segIdx > Len(inv[s].segments)
  /\ inv' = [inv EXCEPT ![s].pc = "done", ![s].result = inv[s].lastResult]
  /\ UNCHANGED <<fs, invoked, toolCall>>

\* time passes between two steps: Date.now() grows by TickMs.  The clock of
\* a call is followed until its deadline has passed: checkTimeout is its only
\* reader and answers the same from then on
tickSlot(slot) ==
  IF slot.pc \in {"pipeline", "pipe"} /\ ~timedOut(slot.ctx)
  THEN [slot EXCEPT !.ctx.elapsed = advance(slot.ctx.elapsed, TickMs)]
  ELSE slot

Tick ==
  /\ \E s \in AllSlots : Running(s) /\ ~timedOut(inv[s].ctx)
  /\ inv' = [s \in AllSlots |-> tickSlot(inv[s])]
  /\ UNCHANGED <<fs, invoked, toolCall>>

\* one worker runs its tool calls one after another (executeTool awaits
\* executeShell): a single slot is in use
MainSlot == MinOf(AllSlots)

Next ==
  \/ Invoke(MainSlot)
  \/ SegmentStep(MainSlot)
  \/ PipeStage(MainSlot)
  \/ PipeEnd(MainSlot)
  \/ Return(MainSlot)
  \/ Tick

Spec == Init /\ [][Next]_vars

\* ------------------------------------------------------------------------
\* The bash tool (executeTool, case 'bash')
\* ------------------------------------------------------------------------

DefaultTimeoutSec == 30
MaxTimeoutSec == 120

\* the largest timeout a request asks for
MaxRequestTimeout == 125

\* input.timeout of a request: not given, or a number of seconds
RequestTimeouts ==
  {[given |-> FALSE, v |-> 0]}
    \cup {[given |-> TRUE, v |-> n] : n \in (0 - 1)..MaxRequestTimeout}

\* variant of line 178 without the Math.min
bashTimeout_unclamped(req) ==
  IF ~req.given \/ req.v = 0 THEN DefaultTimeoutSec ELSE req.v

\* Math.min((input.timeout as number) || 30, 120): undefined and 0 are falsy
bashTimeout(req) ==
  MinOf({IF ~req.given \/ req.v = 0 THEN DefaultTimeoutSec ELSE req.v,
         MaxTimeoutSec})

\* the commands of the requests
ToolLines == {lineEchoAndEcho, linePipeTr}

\* executeTool, case 'bash': executeShell is called with the command of the
\* request, no environment overlay and the timeout made of input.timeout
BashTool(s) ==
  \E req \in RequestTimeouts :
    /\ InvokeFrom(s, ToolLines, {bashTimeout(req)})
    /\ toolCall' = [called |-> TRUE, given |-> req.given, requested |-> req.v,
                    timeoutSec |-> bashTimeout(req)]

NextTool ==
  \/ BashTool(MainSlot)
  \/ SegmentStep(MainSlot)
  \/ PipeStage(MainSlot)
  \/ PipeEnd(MainSlot)
  \/ Return(MainSlot)

SpecTool == Init /\ [][NextTool]_vars

\* runSingle up to the await of safeRead in line 217: the redirect is taken
\* off, the builtin has run and the file of an append redirect has been read;
\* the write of line 218 is still to come
appendRead(raw, ctx, tree) ==
  Let(extractRedirect(raw), LAMBDA redir :
  Let(tokenize(expandVars(redir.cmdStr, ctx.env)), LAMBDA tokens :
    IF \/ redir.kind # "append"
       \/ Len(tokens) = 0
       \/ isAssignment(tokens[1]) /\ Len(tokens) = 1
    THEN NoPending
    ELSE Let(dispatch(tokens[1], Tail(tokens), ctx, <<>>, tree), LAMBDA d :
      IF d.status # "ok" THEN NoPending
      ELSE Let(resolvePath(redir.file, d.ctx.cwd), LAMBDA path :
        [active |-> TRUE, raw |-> raw, path |-> path,
         existing |-> safeRead(d.fs, path),
         d |-> [d EXCEPT !.calls = <<[name |-> tokens[1], args |-> Tail(tokens),
                                      stdin |-> <<>>, status |-> d.status,
                                      res |-> d.res, fs |-> d.fs]>>],
         treeBefore |-> tree]))))

\* line 218 and the return of line 219, on the tree as it is by then
appendWrite(p, tree) ==
  Let(writeGroupFile(tree, p.path, StrPlus(p.existing, p.d.res.stdout)), LAMBDA w :
    [(IF w.err # <<>> THEN Thrown(w.err, p.d.ctx, w.fs)
      ELSE Returned(ShellResult(<<>>, p.d.res.stderr, p.d.res.exitCode), p.d.ctx, w.fs))
       EXCEPT !.calls = p.d.calls])

\* the next step of the slot is a segment that ends with an append redirect
\* whose builtin answers
StartsAppend(s) ==
  /\ inv[s].pc = "pipeline"
  /\ inv[s].segIdx <= Len(inv[s].segments)
  /\ ~timedOut(inv[s].ctx)
  /\ ~isSkipped(inv[s].segments[inv[s].segIdx].cmd)
  /\ ~isPipe(inv[s].segments[inv[s].segIdx].cmd)
  /\ appendRead(Trim(inv[s].segments[inv[s].segIdx].cmd), inv[s].ctx,
                fs[inv[s].ctx.groupId]).active

\* a segment with an append redirect, up to `await safeRead` (line 217)
AppendRead(s) ==
  /\ StartsAppend(s)
  /\ \E p \in {appendRead(Trim(inv[s].segments[inv[s].segIdx].cmd), inv[s].ctx,
                           fs[inv[s].ctx.groupId])} :
       /\ inv' = [inv EXCEPT ![s].pc = "append", ![s].pending = p]
       /\ fs' = [fs EXCEPT ![inv[s].ctx.groupId] = p.d.fs]
  /\ UNCHANGED <<invoked, toolCall>>

\* the rest of that segment: `await writeGroupFile` (line 218), the return
\* of runSingle and lines 95-97 of runPipeline
AppendWrite(s) ==
  /\ inv[s].pc = "append"
  /\ \E g \in {inv[s].ctx.groupId} :
     \E slot \in {[inv[s] EXCEPT !.pc = "pipeline", !.pending = NoPending]} :
     \E o \in {appendWrite(inv[s].pending, fs[g])} :
     \E entry \in {LogEntry(slot, 0, inv[s].pending.raw, <<>>, o,
                             inv[s].pending.treeBefore)} :
       LET next == afterRunSingle(slot, entry, o)
       IN /\ inv' = [inv EXCEPT ![s] =
                       IF o.status = "ok" THEN afterSegment(next, o.res) ELSE next]
          /\ fs' = [fs EXCEPT ![g] = o.fs]
  /\ UNCHANGED <<invoked, toolCall>>

\* two 'invoke' messages of the worker: onmessage does not wait for the
\* handleInvoke of the message before, so that two calls of executeShell
\* interleave at their await points
ConcurrentLines ==
  {lineCdExport, lineAssignPipe, lineUnknown, lineAppendOld, lineAppendOther}

ConcurrentTimeoutSecs == {1}

InvokeConcurrent(s) ==
  InvokeFrom(s, ConcurrentLines, ConcurrentTimeoutSecs) /\ UNCHANGED toolCall

NextInterleaved ==
  \/ \E s \in AllSlots : InvokeConcurrent(s)
  \/ \E s \in AllSlots : ~StartsAppend(s) /\ SegmentStep(s)
  \/ \E s \in AllSlots : AppendRead(s)
  \/ \E s \in AllSlots : AppendWrite(s)
  \/ \E s \in AllSlots : PipeStage(s)
  \/ \E s \in AllSlots : PipeEnd(s)
  \/ \E s \in AllSlots : Return(s)
  \/ Tick

SpecInterleaved == Init /\ [][NextInterleaved]_vars

\* ------------------------------------------------------------------------
\* Properties of runPipeline
\* ------------------------------------------------------------------------

\* the invocation of the worker
main == inv[MainSlot]

\* the names of the builtins dispatch has been called with so far
Dispatched ==
  {main.log[j].calls[1].name :
     j \in {k \in 1..Len(main.log) : main.log[k].calls # <<>>}}

\* the segments after segment i that `if (!cmd.trim()) continue` does not skip
NonBlankAfter(i) ==
  {j \in (i + 1)..Len(main.segments) : Len(Trim(main.segments[j].cmd)) > 0}

\* the k-th segment that answered is the last one executed: the loop is
\* left, no call of runSingle belongs to a later segment, and its result is
\* the one executeShell returns
StopsAt(k) ==
  LET r == main.segResults[k] IN
  /\ k = Len(main.segResults)
  /\ \A j \in 1..Len(main.log) : main.log[j].seg <= r.seg
  /\ main.segIdx > Len(main.segments)
  /\ main.lastResult = r.res
  /\ main.pc \in {"pipeline", "done"}
  /\ main.pc = "done" => (~main.threw /\ main.result = r.res)

\* after the k-th segment that answered, the loop goes on with the next
\* segment that holds a command: no such segment is passed over, and
\* executeShell does not return normally before it has answered
ContinuesAfter(k) ==
  LET r == main.segResults[k] IN
  /\ k < Len(main.segResults) =>
       /\ NonBlankAfter(r.seg) # {}
       /\ main.segResults[k + 1].seg = MinOf(NonBlankAfter(r.seg))
  /\ (k = Len(main.segResults) /\ main.pc = "done" /\ ~main.threw) =>
       NonBlankAfter(r.seg) = {}
  /\ (k = Len(main.segResults) /\ main.pc = "pipeline") =>
       /\ main.segIdx > r.seg
       /\ \A j \in NonBlankAfter(r.seg) : j >= main.segIdx

\* C1: a segment whose own operator is && and whose exit code is not 0 is
\* the last segment executed, whatever operators follow, and executeShell
\* returns its result; `false && echo never` returns stdout "" and exit code
\* 1, and echo is never dispatched.
C1_AndStops ==
  /\ \A k \in 1..Len(main.segResults) :
       (/\ main.segResults[k].op = <<"&", "&">>
        /\ main.segResults[k].res.exitCode # 0) => StopsAt(k)
  /\ (main.command = lineFalseAndEcho /\ main.pc = "done" /\ ~main.threw) =>
       /\ main.result = [stdout |-> <<>>, stderr |-> <<>>, exitCode |-> 1]
       /\ cmdEcho \notin Dispatched

C1_Witness ==
  /\ main.command = lineFalseAndEcho
  /\ main.pc = "done"
  /\ ~main.threw
  /\ Len(main.segments) = 2
  /\ Len(main.segResults) = 1
  /\ main.segResults[1].op = <<"&", "&">>
  /\ main.segResults[1].res.exitCode = 1

\* C2: a segment whose own operator is || and whose exit code is 0 is the
\* last segment executed and its result is the final result; when its exit
\* code is not 0 the next segment is executed; `false || echo yes` returns
\* stdout "yes\n" and exit code 0.
C2_OrStops ==
  /\ \A k \in 1..Len(main.segResults) :
       main.segResults[k].op = <<"|", "|">> =>
         IF main.segResults[k].res.exitCode = 0
         THEN StopsAt(k)
         ELSE ContinuesAfter(k)
  /\ (main.command = lineFalseOrEcho /\ main.pc = "done" /\ ~main.threw) =>
       main.result = [stdout |-> <<"y", "e", "s", "\n">>, stderr |-> <<>>, exitCode |-> 0]

C2_Witness ==
  /\ main.pc = "done"
  /\ ~main.threw
  /\ main.command = lineTrueOrEcho
  /\ Len(main.segments) = 3
  /\ Len(main.segResults) = 1
  /\ main.segResults[1].op = <<"|", "|">>
  /\ main.segResults[1].res.exitCode = 0

\* C3: after a segment whose operator is `;` or empty has answered, the
\* loop goes on with the next segment whatever the exit code was (when the
\* deadline has passed the next iteration throws instead).
C3_SemiContinues ==
  \A k \in 1..Len(main.segResults) :
    main.segResults[k].op \in {<<";">>, <<>>} => ContinuesAfter(k)

C3_Witness ==
  /\ main.command = lineFalseSemiEcho
  /\ main.pc = "done"
  /\ ~main.threw
  /\ Len(main.segResults) = 2
  /\ main.segResults[1].op = <<";">>
  /\ main.segResults[1].res.exitCode = 1
  /\ main.result.stdout = <<"c", "\n">>

\* C4: the result executeShell returns is exactly the result of the last
\* segment that was executed, the output of earlier segments is not in it;
\* `echo a && echo b` executes both and returns stdout "b\n" and exit code 0.
C4_LastSegmentResult ==
  /\ (main.pc = "done" /\ ~main.threw) =>
       main.result = IF main.segResults = <<>>
                     THEN [stdout |-> <<>>, stderr |-> <<>>, exitCode |-> 0]
                     ELSE main.segResults[Len(main.segResults)].res
  /\ (main.command = lineEchoAndEcho /\ main.pc = "done" /\ ~main.threw) =>
       /\ Len(main.segResults) = 2
       /\ main.segResults[1].res.stdout = <<"a", "\n">>
       /\ main.result = [stdout |-> <<"b", "\n">>, stderr |-> <<>>, exitCode |-> 0]

C4_Witness ==
  /\ main.command = lineEchoAndEcho
  /\ main.pc = "done"
  /\ ~main.threw
  /\ Len(main.log) = 2
  /\ main.result.stdout = <<"b", "\n">>

\* ------------------------------------------------------------------------
\* Properties of the deadline and of the catch of executeShell
\* ------------------------------------------------------------------------

\* C5: when the deadline has passed at the moment a segment or a pipe stage
\* (and the single command in it) is about to start, executeShell returns
\* stdout "", the timeout message as stderr and exit code 1; the step does
\* not call runSingle and leaves the workspace as it is, and nothing runs
\* once executeShell has returned.
C5_Timeout ==
  [][/\ (/\ main.ctx.elapsed > main.ctx.timeoutMs
         /\ inv'[MainSlot].ctx.elapsed = main.ctx.elapsed
         /\ \/ main.pc = "pipeline" /\ main.segIdx <= Len(main.segments)
            \/ main.pc = "pipe" /\ main.partIdx <= Len(main.parts)) =>
        /\ inv'[MainSlot].pc = "done"
        /\ inv'[MainSlot].result =
             [stdout |-> <<>>, stderr |-> <<"[command timed out]">>, exitCode |-> 1]
        /\ inv'[MainSlot].log = main.log
        /\ inv'[MainSlot].segResults = main.segResults
        /\ fs' = fs
     /\ main.pc = "done" => invoked' = invoked + 1]_vars

C5_Witness ==
  /\ main.command = lineSleepEcho
  /\ main.timeoutSec = 1
  /\ main.pc = "done"
  /\ main.threw
  /\ main.result = [stdout |-> <<>>, stderr |-> <<"[command timed out]">>, exitCode |-> 1]
  /\ Len(main.log) = 1
  /\ main.segIdx = 2
  /\ cmdEcho \notin Dispatched

\* C6: an error thrown below executeShell is caught by executeShell and
\* returned as stdout "", the message of the error as stderr and exit code
\* 1: the call of runSingle that threw is the last one, and executeShell
\* never throws to its caller.
C6_Caught ==
  /\ main.pc # "rejected"
  /\ main.threw =>
       /\ main.pc = "done"
       /\ main.result = [stdout |-> <<>>, stderr |-> main.caught, exitCode |-> 1]
  /\ \A j \in 1..Len(main.log) :
       main.log[j].status = "thrown" =>
         /\ j = Len(main.log)
         /\ main.pc = "done"
         /\ main.result =
              [stdout |-> <<>>, stderr |-> main.log[j].err, exitCode |-> 1]

C6_Witness ==
  /\ main.command = lineWriteDir
  /\ main.pc = "done"
  /\ Len(main.log) = 2
  /\ main.log[2].status = "thrown"
  /\ main.log[2].err = TypeMismatchError
  /\ main.result = [stdout |-> <<>>, stderr |-> TypeMismatchError, exitCode |-> 1]

\* C7: every invocation of executeShell returns a result to its caller: no
\* invocation reaches the state in which a builtin loops for ever, from
\* which executeShell cannot return.
C7_Returns == main.pc # "hung"

\* ------------------------------------------------------------------------
\* Properties of runPipe
\* ------------------------------------------------------------------------

\* C8: the stages of a pipe run left to right; the first stage is given an
\* empty stdin and stage i+1 the stdout of stage i; the exit code and the
\* stderr of a stage that is not the last do not stop the pipe; the result
\* of the segment is the result of the last stage; `echo hi | tr h H`
\* returns stdout "Hi\n".
C8_Pipe ==
  /\ \A j \in 1..Len(main.log) :
       main.log[j].part >= 1 =>
         /\ main.log[j].raw =
              pipeParts(main.segments[main.log[j].seg].cmd)[main.log[j].part]
         /\ IF main.log[j].part = 1
            THEN main.log[j].stdin = <<>>
            ELSE /\ j > 1
                 /\ main.log[j - 1].seg = main.log[j].seg
                 /\ main.log[j - 1].part = main.log[j].part - 1
                 /\ main.log[j].stdin = main.log[j - 1].res.stdout
         /\ (/\ j = Len(main.log)
             /\ main.log[j].status = "ok"
             /\ main.pc = "pipe") => main.partIdx = main.log[j].part + 1
  /\ \A k \in 1..Len(main.segResults) :
       isPipe(main.segments[main.segResults[k].seg].cmd) =>
         \E j \in 1..Len(main.log) :
           /\ main.log[j].seg = main.segResults[k].seg
           /\ main.log[j].part =
                Len(pipeParts(main.segments[main.segResults[k].seg].cmd))
           /\ main.log[j].res = main.segResults[k].res
  /\ (main.command = linePipeTr /\ main.pc = "done" /\ ~main.threw) =>
       main.result = [stdout |-> <<"H", "i", "\n">>, stderr |-> <<>>, exitCode |-> 0]

C8_Witness ==
  /\ main.command = linePipeFailing
  /\ main.pc = "done"
  /\ ~main.threw
  /\ Len(main.log) = 3
  /\ main.log[1].res.exitCode = 1
  /\ main.log[1].res.stderr # <<>>
  /\ main.log[3].stdin = <<"x", "\n">>
  /\ main.result = [stdout |-> <<"x", "\n">>, stderr |-> <<>>, exitCode |-> 0]

\* ------------------------------------------------------------------------
\* Properties of the redirects
\* ------------------------------------------------------------------------

C10_AppendRedirect ==
  /\ \A j \in 1..Len(main.log) :
       (/\ main.log[j].redirect = "append"
        /\ main.log[j].calls # <<>>
        /\ main.log[j].calls[1].status = "ok"
        /\ main.log[j].accepted) =>
         /\ main.log[j].status = "ok"
         /\ main.log[j].after =
              (IF main.log[j].before = Null THEN <<>> ELSE main.log[j].before)
                \o main.log[j].calls[1].res.stdout
  /\ (/\ main.command = lineAppendTwice
      /\ main.pc = "done"
      /\ ~main.threw
      /\ main.log[1].before = Null) =>
       main.log[2].after = <<"a", "\n", "b", "\n">>
\* ------------------------------------------------------------------------
\* Properties of runSingle
\* ------------------------------------------------------------------------

\* C11 as stated: variable expansion is applied to the text of a command
\* before its trailing redirect is detected and removed, so that the
\* redirect, its target and the tokens handed to dispatch are those of the
\* expanded text.
C11_ExpandBeforeRedirect ==
  \A j \in 1..Len(main.log) :
    main.log[j].calls # <<>> =>
      LET e == extractRedirect(expandVars(main.log[j].raw, main.log[j].ctxBefore.env))
          t == tokenize(e.cmdStr)
      IN /\ main.log[j].redirect = e.kind
         /\ e.kind # "none" =>
              main.log[j].target = resolvePath(e.file, main.log[j].ctxAfter.cwd)
         /\ <<main.log[j].calls[1].name>> \o main.log[j].calls[1].args = t
\* ------------------------------------------------------------------------
\* Properties of cat and of the store
\* ------------------------------------------------------------------------

C13_RejectionBecomesResult ==
  \A j \in 1..Len(main.log) :
    main.log[j].status = "thrown" => main.log[j].err = TimeoutMessage

\* C14 as stated: a builtin that has not performed all of its steps (it
\* failed or threw) has changed nothing in the workspace.
C14_AllOrNothing ==
  \A j \in 1..Len(main.log) :
    (/\ main.log[j].calls # <<>>
     /\ \/ main.log[j].calls[1].status = "thrown"
        \/ main.log[j].calls[1].res.exitCode # 0) =>
      main.log[j].calls[1].fs = main.log[j].fsBefore
\* ------------------------------------------------------------------------
\* Properties of the execution context
\* ------------------------------------------------------------------------

\* C15: every invocation starts with cwd "." and the default environment
\* merged with the caller's overlay, and the cwd and env an invocation has
\* are at every moment those its own commands left: each command starts
\* from the cwd and env the command before it in the same invocation left
\* (the initial ones for the first), whatever other invocations have done
\* before or in between.
C15_OwnContext ==
  \A s \in AllSlots :
    inv[s].pc # "idle" =>
      LET log == inv[s].log
          CwdEnv(c) == <<c.cwd, c.env>>
          Fresh(c) == \E overlay \in EnvOverlays : CwdEnv(c) = <<Dot, defaultEnv(overlay)>>
      IN /\ IF log = <<>> THEN Fresh(inv[s].ctx)
            ELSE CwdEnv(inv[s].ctx) = CwdEnv(log[Len(log)].ctxAfter)
         /\ \A j \in 1..Len(log) :
              IF j = 1 THEN Fresh(log[j].ctxBefore)
              ELSE CwdEnv(log[j].ctxBefore) = CwdEnv(log[j - 1].ctxAfter)

\* two invocations are under way at once: one has run `cd d` and `export
\* Y=2`, the other has run `X=1` and still has cwd "." and no Y
C15_Witness ==
  /\ Running(1) /\ Running(2)
  /\ inv[1].ctx.cwd = <<"d">>
  /\ <<"Y">> \in DOMAIN inv[1].ctx.env
  /\ inv[2].log # <<>>
  /\ <<"X">> \in DOMAIN inv[2].ctx.env
  /\ inv[2].ctx.cwd = Dot
  /\ <<"Y">> \notin DOMAIN inv[2].ctx.env
\* ------------------------------------------------------------------------
\* Properties of the builtins
\* ------------------------------------------------------------------------

\* C16 as stated: executed through executeShell (and not cut short by the
\* deadline), `test -z ""` returns exit code 0, `test -z "x"` returns exit
\* code 1 and `test 3 -lt 5` returns exit code 0.
C16_TestExamples ==
  (main.pc = "done" /\ ~main.threw) =>
    /\ main.command = lineTestZEmpty => main.result.exitCode = 0
    /\ main.command = lineTestZX => main.result.exitCode = 1
    /\ main.command = lineTestLt => main.result.exitCode = 0
\* C17 as stated: a grep that selects zero lines returns exit code 1 with
\* empty stdout and empty stderr, whatever its flags are.
C17_GrepNoMatch ==
  \A j \in 1..Len(main.log) :
    (/\ main.log[j].calls # <<>>
     /\ main.log[j].calls[1].name = <<"g", "r", "e", "p">>
     /\ grepLines(main.log[j].calls[1].args, main.log[j].ctxBefore,
                  main.log[j].stdin, main.log[j].fsBefore).lines = <<>>) =>
      main.log[j].calls[1].res = ShellResult(<<>>, <<>>, 1)
\* C18: a command name that is no case of dispatch answers exit code 127
\* with empty stdout and a stderr that starts with the name, and leaves the
\* cwd, the env and the workspace as they were; a redirect on the command
\* that the store accepts still writes the empty output.
C18_UnknownCommand ==
  \A j \in 1..Len(main.log) :
    (/\ main.log[j].calls # <<>>
     /\ main.log[j].calls[1].name \notin BuiltinNames) =>
      /\ main.log[j].calls[1].status = "ok"
      /\ main.log[j].calls[1].res.exitCode = CommandNotFound
      /\ main.log[j].calls[1].res.stdout = <<>>
      /\ StartsWith(main.log[j].calls[1].res.stderr, main.log[j].calls[1].name)
      /\ main.log[j].calls[1].fs = main.log[j].fsBefore
      /\ main.log[j].ctxAfter = main.log[j].ctxBefore
      /\ (main.log[j].redirect = "write" /\ main.log[j].accepted) =>
           /\ main.log[j].after = <<>>
           /\ main.log[j].res.exitCode = CommandNotFound

\* `nosuch > f` over a workspace where f held "old\n": exit code 127 and f
\* is left empty
C18_Witness ==
  /\ main.command = lineUnknownWrite
  /\ main.pc = "done"
  /\ Len(main.log) = 1
  /\ main.log[1].before = <<"o", "l", "d", "\n">>
  /\ main.log[1].after = <<>>
  /\ main.result.exitCode = CommandNotFound
  /\ StartsWith(main.result.stderr, <<"n", "o", "s", "u", "c", "h">>)
\* C19: after `mkdir -p a/b` has succeeded, a later `ls a` of the same
\* invocation (cwd at the root) succeeds and lists the entry "b/", and a
\* later `test -d a/b` answers exit code 0.
C19_MkdirThenLs ==
  \A i \in 1..Len(main.log) : \A j \in (i + 1)..Len(main.log) :
    (/\ main.log[i].calls # <<>>
     /\ main.log[i].calls[1].name = cmdMkdir
     /\ main.log[i].calls[1].args = <<<<"-", "p">>, <<"a", "/", "b">>>>
     /\ main.log[i].status = "ok"
     /\ main.log[i].res.exitCode = 0
     /\ main.log[j].calls # <<>>
     /\ main.log[j].ctxBefore.cwd = Dot) =>
      /\ (main.log[j].calls[1].name = <<"l", "s">> /\ main.log[j].calls[1].args = <<<<"a">>>>) =>
           /\ main.log[j].calls[1].res.exitCode = 0
           /\ ListIncludes(SplitChar(main.log[j].calls[1].res.stdout, "\n"), <<"b", "/">>)
      /\ (main.log[j].calls[1].name = <<"t", "e", "s", "t">> /\ main.log[j].calls[1].args = <<<<"-", "d">>, <<"a", "/", "b">>>>) =>
           main.log[j].calls[1].res.exitCode = 0

\* `mkdir -p a/b ; ls a ; test -d a/b` has run to its end: ls answered
\* "b/\n" and test answered 0
C19_Witness ==
  /\ main.command = lineMkdirLs
  /\ main.pc = "done"
  /\ Len(main.segResults) = 3
  /\ main.segResults[1].res = ok(<<>>)
  /\ main.segResults[2].res = ok(<<"b", "/", "\n">>)
  /\ main.segResults[3].res.exitCode = 0
\* the tokens runSingle makes of the text of log entry e
TokensOf(e) ==
  tokenize(expandVars(extractRedirect(e.raw).cmdStr, e.ctxBefore.env))

C21_NoEmptySegment ==
  \A k \in 1..Len(main.segments) : Len(Trim(main.segments[k].cmd)) > 0

\* the quote a scan of the first n characters of line ends in: "single",
\* "double" or "none"
RECURSIVE QuoteAfter(_, _)
QuoteAfter(line, n) ==
  IF n = 0 THEN "none"
  ELSE Let(QuoteAfter(line, n - 1), LAMBDA prev :
         IF line[n] = "'" /\ prev # "double"
         THEN IF prev = "single" THEN "none" ELSE "single"
         ELSE IF line[n] = "\"" /\ prev # "single"
         THEN IF prev = "double" THEN "none" ELSE "double"
         ELSE prev)

\* the operator that starts at position p of line, <<>> if none does
OpAt(line, p) ==
  IF MatchesAt(line, p, <<"&", "&">>) THEN <<"&", "&">>
  ELSE IF MatchesAt(line, p, <<"|", "|">>) THEN <<"|", "|">>
  ELSE IF MatchesAt(line, p, <<";">>) THEN <<";">>
  ELSE <<>>

\* the position in the line of the first character of segment k
RECURSIVE SegStart(_, _)
SegStart(segs, k) ==
  IF k = 1 THEN 1
  ELSE SegStart(segs, k - 1) + Len(segs[k - 1].cmd) + Len(segs[k - 1].op)

\* the segments are consecutive pieces of the line, each followed by the
\* operator it records; every split is at an operator outside quotes; an
\* operator inside a segment's text is inside quotes; what follows the last
\* segment is white space
SplitsOutsideQuotes(line, segs) ==
  /\ \A k \in 1..Len(segs) :
       Let(SegStart(segs, k), LAMBDA a :
         Let(a + Len(segs[k].cmd), LAMBDA b :
           /\ SubSeq(line, a, b - 1) = segs[k].cmd
           /\ OpAt(line, b) = segs[k].op
           /\ segs[k].op # <<>> => QuoteAfter(line, b - 1) = "none"
           /\ segs[k].op = <<>> => b = Len(line) + 1
           /\ \A p \in a..(b - 1) :
                OpAt(line, p) # <<>> => QuoteAfter(line, p - 1) # "none"))
  /\ Trim(SubSeq(line, SegStart(segs, Len(segs) + 1), Len(line))) = <<>>

\* C22 as stated: splitOnOperators splits only at ; && || outside single
\* and double quotes, an operator between quotes stays in the segment text,
\* each segment records the operator that immediately followed it, and the
\* last segment records none.
C22_SplitOutsideQuotes ==
  main.pc # "idle" =>
    /\ SplitsOutsideQuotes(Trim(main.command), main.segments)
    /\ Len(main.segments) > 0 => main.segments[Len(main.segments)].op = <<>>

\* C22 amended: as above, but the last segment records none only when it
\* reaches the end of the line; when the line ends with an operator, the
\* last segment records that operator.
C22_SplitOutsideQuotesTrailing ==
  main.pc # "idle" => SplitsOutsideQuotes(Trim(main.command), main.segments)

\* the line with operators inside both kinds of quotes has run: it was split
\* in two at its one unquoted && and printed the quoted || of the second
\* segment
C22_Witness ==
  /\ main.command = lineQuotedOps
  /\ main.pc = "done"
  /\ Len(main.segments) = 2
  /\ main.segments[1].op = <<"&", "&">>
  /\ main.result = ok(<<"c", "|", "|", "\"", "d", "\n">>)
\* C21 amended: splitOnOperators drops only an empty piece at the end of
\* the line; an empty segment it returns is always followed by an operator,
\* and runPipeline skips it: no command is run for it and the result of the
\* segment before it stays the last result.
C21_EmptySegmentSkipped ==
  /\ \A k \in 1..Len(main.segments) :
       Len(Trim(main.segments[k].cmd)) = 0 =>
         /\ main.segments[k].op # <<>>
         /\ \A j \in 1..Len(main.log) : main.log[j].seg # k
         /\ \A j \in 1..Len(main.segResults) : main.segResults[j].seg # k
  /\ (main.pc = "done" /\ ~main.threw /\ main.command = lineDoubleSemi) =>
       main.result = ok(<<"a", "\n">>)

\* `echo a ;;` has returned "a\n": the empty segment between the two
\* semicolons was returned by splitOnOperators and skipped
C21_Witness ==
  /\ main.command = lineDoubleSemi
  /\ main.pc = "done"
  /\ Len(main.segments) = 2
  /\ main.segments[2].cmd = <<>>
  /\ Len(main.log) = 1
  /\ main.result = ok(<<"a", "\n">>)
\* log entry j is a call of test
IsTestCall(j) ==
  /\ main.log[j].calls # <<>>
  /\ main.log[j].calls[1].name = <<"t", "e", "s", "t">>

\* C23 as stated: for every argument list X, `test ! X` answers the
\* opposite of `test X` (exit code 0 exactly when `test X` answers 1, and 1
\* exactly when it answers 0), the two run on the same workspace and cwd.
C23_NegationIsOpposite ==
  \A j \in 1..Len(main.log), k \in 1..Len(main.log) :
    (/\ IsTestCall(j)
     /\ IsTestCall(k)
     /\ main.log[j].calls[1].args = <<<<"!">>>> \o main.log[k].calls[1].args
     /\ main.log[j].fsBefore = main.log[k].fsBefore
     /\ main.log[j].ctxBefore.cwd = main.log[k].ctxBefore.cwd) =>
      /\ main.log[k].res.exitCode \in {0, 1}
      /\ main.log[j].res.exitCode = 1 - main.log[k].res.exitCode
\* the text s from position p on with every ${NAME} and every $NAME replaced
\* by env[NAME], or by nothing when NAME is unset, in one scan from left to
\* right of the text as it was written
RECURSIVE SubstituteAll(_, _, _)
SubstituteAll(s, p, env) ==
  IF p > Len(s) THEN <<>>
  ELSE Let(NextIn(s, p, {"$"}), LAMBDA q :
    IF q > p THEN SubSeq(s, p, q - 1) \o SubstituteAll(s, q, env)
    ELSE IF /\ CharAt(s, p + 1) = "{"
            /\ WordEnd(s, p + 2) >= p + 2
            /\ CharAt(s, WordEnd(s, p + 2) + 1) = "}"
    THEN EnvGet(env, SubSeq(s, p + 2, WordEnd(s, p + 2)))
           \o SubstituteAll(s, WordEnd(s, p + 2) + 2, env)
    ELSE IF WordEnd(s, p + 1) >= p + 1
    THEN EnvGet(env, SubSeq(s, p + 1, WordEnd(s, p + 1)))
           \o SubstituteAll(s, WordEnd(s, p + 1) + 1, env)
    ELSE <<s[p]>> \o SubstituteAll(s, p + 1, env))

\* C24 as stated: the text runSingle tokenizes is the command text with
\* every ${NAME} and every $NAME replaced by env[NAME], or by the empty
\* string when NAME is unset, whatever quotes surround it: the command
\* called and its arguments are the tokens of that text, and
\* `echo '$HOME' "${HOME}" $NOPE.` prints the value of HOME twice.
C24_EveryVariableReplaced ==
  /\ \A j \in 1..Len(main.log) :
       main.log[j].calls # <<>> =>
         <<main.log[j].calls[1].name>> \o main.log[j].calls[1].args =
           tokenize(SubstituteAll(extractRedirect(main.log[j].raw).cmdStr, 1,
                                  main.log[j].ctxBefore.env))
  /\ (main.pc = "done" /\ ~main.threw /\ main.command = lineExpandQuoted) =>
       main.result = ok(<<"/", "w", "o", "r", "k", "s", "p", "a", "c", "e", " ", "/", "w", "o", "r", "k", "s", "p", "a", "c", "e", " ", ".", "\n">>)
\* log entry j is a call of touch
IsTouchCall(j) ==
  /\ main.log[j].calls # <<>>
  /\ main.log[j].calls[1].name = <<"t", "o", "u", "c", "h">>

\* the store paths the operands of the touch of log entry j name
TouchTargets(j) ==
  {pathParts(resolvePath(main.log[j].calls[1].args[k], main.log[j].ctxBefore.cwd)) :
     k \in 1..Len(main.log[j].calls[1].args)}

\* every operand of the touch of log entry j that named no file before is an
\* empty file afterwards
TouchCreates(j) ==
  \A k \in 1..Len(main.log[j].calls[1].args) :
    Let(resolvePath(main.log[j].calls[1].args[k], main.log[j].ctxBefore.cwd), LAMBDA t :
      safeRead(main.log[j].fsBefore, t) = Null =>
        safeRead(main.log[j].calls[1].fs, t) = <<>>)

\* the touch of log entry j has left the content of every operand that named
\* a file as it was, and has changed, added or removed no file that is not
\* an operand
TouchKeeps(j) ==
  /\ \A k \in 1..Len(main.log[j].calls[1].args) :
       Let(resolvePath(main.log[j].calls[1].args[k], main.log[j].ctxBefore.cwd), LAMBDA t :
         safeRead(main.log[j].fsBefore, t) # Null =>
           safeRead(main.log[j].calls[1].fs, t) = safeRead(main.log[j].fsBefore, t))
  /\ \A p \in (DOMAIN main.log[j].fsBefore) \cup (DOMAIN main.log[j].calls[1].fs) :
       (/\ p \notin TouchTargets(j)
        /\ \/ p \in DOMAIN main.log[j].fsBefore /\ main.log[j].fsBefore[p].kind = "file"
           \/ p \in DOMAIN main.log[j].calls[1].fs /\ main.log[j].calls[1].fs[p].kind = "file") =>
         /\ p \in DOMAIN main.log[j].fsBefore
         /\ p \in DOMAIN main.log[j].calls[1].fs
         /\ main.log[j].fsBefore[p] = main.log[j].calls[1].fs[p]

IsRmCall(j) ==
  /\ main.log[j].calls # <<>>
  /\ main.log[j].calls[1].name = <<"r", "m">>

\* the store path operand k of the rm of log entry j names
RmTarget(j, k) ==
  pathParts(resolvePath(parseFlags(main.log[j].calls[1].args, <<>>).operands[k],
                        main.log[j].ctxBefore.cwd))

\* C26 as stated: `rm -f` answers exit code 0 whatever its operands are,
\* also when some do not exist, and has deleted every operand that existed;
\* `rm` without -f answers a non-zero exit code that names the first operand
\* whose deletion fails (the operands before it are deleted), and exit code
\* 0 when no deletion fails.
C26_RmForce ==
  \A j \in 1..Len(main.log) :
    IsRmCall(j) =>
      Let(parseFlags(main.log[j].calls[1].args, <<>>), LAMBDA pf :
        IF <<"f">> \in DOMAIN pf.flags
        THEN /\ main.log[j].calls[1].res.exitCode = 0
             /\ \A k \in 1..Len(pf.operands) :
                  RmTarget(j, k) \in DOMAIN main.log[j].fsBefore =>
                    RmTarget(j, k) \notin DOMAIN main.log[j].calls[1].fs
        ELSE \/ /\ main.log[j].calls[1].res.exitCode = 0
                /\ \A k \in 1..Len(pf.operands) :
                     /\ RmTarget(j, k) \in DOMAIN main.log[j].fsBefore
                     /\ RmTarget(j, k) \notin DOMAIN main.log[j].calls[1].fs
             \/ /\ main.log[j].calls[1].res.exitCode # 0
                /\ \E k \in 1..Len(pf.operands) :
                     /\ Includes(main.log[j].calls[1].res.stderr, pf.operands[k])
                     /\ deleteGroupFile(main.log[j].calls[1].fs,
                                        resolvePath(pf.operands[k], main.log[j].ctxBefore.cwd)).err # <<>>
                     /\ \A i \in 1..(k - 1) :
                          RmTarget(j, i) \notin DOMAIN main.log[j].calls[1].fs)
\* C27 as stated: `which NAME` and `command NAME` answer exit code 0 with
\* the pseudo path /usr/bin/NAME for every command name that is a case of
\* dispatch, and a non-zero result without output for every name dispatch
\* would answer with exit code 127 (the names that are no case of it).
C27_WhichKnowsDispatch ==
  \A j \in 1..Len(main.log) :
    (/\ main.log[j].calls # <<>>
     /\ main.log[j].calls[1].name \in {<<"w", "h", "i", "c", "h">>, <<"c", "o", "m", "m", "a", "n", "d">>}
     /\ SelectSeq(main.log[j].calls[1].args, NotDash) # <<>>) =>
      Let(SelectSeq(main.log[j].calls[1].args, NotDash)[1], LAMBDA target :
        IF target \in BuiltinNames
        THEN main.log[j].calls[1].res = ok(<<"/", "u", "s", "r", "/", "b", "i", "n", "/">> \o target \o <<"\n">>)
        ELSE /\ main.log[j].calls[1].res.exitCode # 0
             /\ main.log[j].calls[1].res.stdout = <<>>)
\* a step of the main invocation that has started: a call of runSingle is
\* added to the log
StepRan == Len(inv'[MainSlot].log) = Len(main.log) + 1

\* the deadline cuts no step that has started and undoes nothing: a call of
\* runSingle starts only before the deadline and never ends with the
\* timeout, also when the deadline passes while it runs; the step that finds
\* the deadline passed runs nothing and leaves the workspace as it is
DeadlineOnlyPolled ==
  [][/\ (main.pc \in {"pipeline", "pipe"} /\ StepRan) =>
          Let(inv'[MainSlot].log[Len(main.log) + 1], LAMBDA e :
            /\ ~timedOut(e.ctxBefore)
            /\ e.status = "thrown" => e.err # TimeoutMessage
            /\ e.status = "ok" => inv'[MainSlot].result # fail(TimeoutMessage, 1))
     /\ (/\ main.pc \in {"pipeline", "pipe"}
         /\ inv'[MainSlot].pc = "done"
         /\ inv'[MainSlot].result = fail(TimeoutMessage, 1)) =>
          /\ timedOut(main.ctx)
          /\ ~StepRan
          /\ inv'[MainSlot].log = main.log
          /\ fs' = fs]_vars

\* C28: a step that started before the deadline always runs to completion
\* (it ends, with a result or an error of its own, and no step stays running
\* for ever) and its effects on the workspace remain; the deadline is seen
\* only by the next checkTimeout, which aborts what has not started.
C28_StartedStepCompletes ==
  /\ [](\A j \in 1..Len(main.log) : main.log[j].status \in {"ok", "thrown"})
  /\ DeadlineOnlyPolled
\* C29: the timeout the bash tool passes to executeShell is 30 seconds when
\* the request gives none, and is at most 120 seconds whatever the request
\* gives; it is the timeout the invocation runs under.
C29_ToolTimeout ==
  toolCall.called =>
    /\ ~toolCall.given => toolCall.timeoutSec = 30
    /\ toolCall.timeoutSec <= 120
    /\ (toolCall.given /\ toolCall.requested \in 1..120) =>
         toolCall.timeoutSec = toolCall.requested
    /\ main.timeoutSec = toolCall.timeoutSec
    /\ main.ctx.timeoutMs = toolCall.timeoutSec * 1000

\* a request that asked for 121 seconds has run under 120
C29_Witness ==
  /\ toolCall.called
  /\ toolCall.given
  /\ toolCall.requested = 121
  /\ main.timeoutSec = 120
  /\ main.pc = "done"
\* log entry j is a call of a builtin that parses its arguments with
\* parseFlags and no flag (rm) or the flags e and m (grep) taking a value
IsFlagCall(j) ==
  /\ main.log[j].calls # <<>>
  /\ main.log[j].calls[1].name \in {<<"r", "m">>, <<"g", "r", "e", "p">>}

FlagsWithValue(j) ==
  IF main.log[j].calls[1].name = <<"r", "m">> THEN <<>> ELSE <<<<"e">>, <<"m">>>>

\* ops are tokens of args, in the order they have in args
InOrder(ops, args) ==
  \E f \in [1..Len(ops) -> 1..Len(args)] :
    /\ \A i \in 1..Len(ops) : args[f[i]] = ops[i]
    /\ \A i \in 1..Len(ops), k \in 1..Len(ops) : i < k => f[i] < f[k]

\* parseFlags has treated position d of args, a `--`, as the end of the
\* flags: the flags are those of the tokens before d, and the operands are
\* those of the tokens before d followed by all the tokens after d
EndsFlagsAt(args, withValue, d) ==
  /\ parseFlags(args, withValue).flags = parseFlags(Take(args, d - 1), withValue).flags
  /\ parseFlags(args, withValue).operands =
       parseFlags(Take(args, d - 1), withValue).operands \o Drop(args, d + 1)

\* C30 as stated: parseFlags returns the operands in the order they appear
\* in the token list, and every token after the first `--` is an operand,
\* unchanged, while the `--` is neither a flag nor an operand.
C30_DashDashEndsFlags ==
  \A j \in 1..Len(main.log) :
    IsFlagCall(j) =>
      Let(main.log[j].calls[1].args, LAMBDA args :
        /\ InOrder(parseFlags(args, FlagsWithValue(j)).operands, args)
        /\ \A d \in 1..Len(args) :
             (args[d] = <<"-", "-">> /\ \A k \in 1..(d - 1) : args[k] # <<"-", "-">>) =>
               EndsFlagsAt(args, FlagsWithValue(j), d))

\* parseFlags has taken position d of args as the value of the flag before
\* it: what it makes of the tokens up to d differs from what it makes of the
\* tokens before d
TakenAsValue(args, withValue, d) ==
  parseFlags(Take(args, d), withValue) # parseFlags(Take(args, d - 1), withValue)

\* C30 amended: the same for the first `--` that is not taken as the value
\* of a flag that takes a value; a `--` that follows such a flag is the
\* value of the flag, and the tokens after it are parsed as before.
C30_DashDashUnlessValue ==
  \A j \in 1..Len(main.log) :
    IsFlagCall(j) =>
      Let(main.log[j].calls[1].args, LAMBDA args :
        /\ InOrder(parseFlags(args, FlagsWithValue(j)).operands, args)
        /\ \A d \in 1..Len(args) :
             (/\ args[d] = <<"-", "-">>
              /\ \A k \in 1..(d - 1) :
                   args[k] = <<"-", "-">> => TakenAsValue(args, FlagsWithValue(j), k)) =>
               IF TakenAsValue(args, FlagsWithValue(j), d)
               THEN \E x \in DOMAIN parseFlags(args, FlagsWithValue(j)).flags :
                      /\ ListIncludes(FlagsWithValue(j), x)
                      /\ parseFlags(Take(args, d), FlagsWithValue(j)).flags[x] = <<"-", "-">>
               ELSE EndsFlagsAt(args, FlagsWithValue(j), d))

\* `rm f -f -- -f nofile` has run: -f before the `--` was a flag (exit code
\* 0 although nofile is missing), the -f after it an operand
C30_Witness ==
  /\ main.command = lineRmDashDash
  /\ main.pc = "done"
  /\ Len(main.log) = 1
  /\ parseFlags(main.log[1].calls[1].args, <<>>).operands =
       <<<<"f">>, <<"-", "f">>, <<"n", "o", "f", "i", "l", "e">>>>
  /\ DOMAIN parseFlags(main.log[1].calls[1].args, <<>>).flags = {<<"f">>}
  /\ main.result = ok(<<>>)
\* ------------------------------------------------------------------------
\* Properties of paths and of cd
\* ------------------------------------------------------------------------

\* path arguments given to resolvePath at every cwd that cd has reached
PathArgs ==
  {<<>>, <<".">>, <<".", ".">>, <<".", ".", "/", ".", ".">>, <<"/">>, <<"/", "/", "a">>, <<"a", "/">>, <<"a", "/", "/", "b">>, <<".", "/", "a", "/", ".">>, <<"a", "/", ".", ".", "/", ".", ".", "/", "b">>,
   <<"/", "w", "o", "r", "k", "s", "p", "a", "c", "e">>, <<"/", "w", "o", "r", "k", "s", "p", "a", "c", "e", "/">>, <<"/", "w", "o", "r", "k", "s", "p", "a", "c", "e", "/", ".", ".">>, <<"/", "w", "o", "r", "k", "s", "p", "a", "c", "e", "/", "/", "a", "/", ".", ".">>,
   <<"/", "w", "o", "r", "k", "s", "p", "a", "c", "e", "x", "/", ".", ".">>, <<"/", "w", "o", "r", "k", "s", "p", "a", "c", "e", "/", "a", "/", "b">>,
   <<"/", ".", ".", "/", "a">>, <<".", ".", ".">>}

\* `.` or a slash-joined path without `.`, `..` or empty segment and without
\* a leading slash
NormalForm(c) ==
  \/ c = Dot
  \/ /\ Len(c) > 0
     /\ c[1] # "/"
     /\ Let(SplitChar(c, "/"), LAMBDA segs :
            \A k \in 1..Len(segs) : segs[k] \notin {<<>>, Dot, <<".", ".">>})

IsCdCall(e) == e.calls # <<>> /\ e.calls[1].name = cmdCd /\ e.calls[1].status = "ok"

\* C31: resolvePath returns `.` or a path in normal form for every path
\* argument and every reachable cwd; after every cd the cwd is in normal
\* form, every redirect target is in normal form, and `cd ..` at the root
\* stays at the root.
C31_NormalForm ==
  \A j \in 1..Len(main.log) :
    /\ NormalForm(main.log[j].ctxAfter.cwd)
    /\ main.log[j].redirect # "none" => NormalForm(main.log[j].target)
    /\ IsCdCall(main.log[j]) =>
         /\ \A p \in PathArgs : NormalForm(resolvePath(p, main.log[j].ctxAfter.cwd))
         /\ (main.log[j].ctxBefore.cwd = Dot /\ main.log[j].calls[1].args = <<<<".", ".">>>>) =>
              main.log[j].ctxAfter.cwd = Dot

\* `cd a/./b//.. ; cd ../..`: cwd is a, then the root, although the second
\* cd climbs twice
C31_Witness ==
  /\ main.command = lineCdNormal
  /\ main.pc = "done"
  /\ Len(main.log) = 2
  /\ main.log[1].ctxAfter.cwd = <<"a">>
  /\ main.log[2].ctxAfter.cwd = Dot
  /\ main.log[2].calls[1].args = <<<<".", ".", "/", ".", ".">>>>
\* the path pwd prints in the context ctx, without its newline
PwdPrints(ctx) ==
  Let(dispatch(cmdPwd, <<>>, ctx, <<>>, EmptyFS).res.stdout,
      LAMBDA out : Take(out, Len(out) - 1))

\* C32: after every cd of an invocation the environment variable PWD is the
\* path that pwd prints, also after a cd back to the workspace root.
C32_PwdMatchesPWD ==
  \A j \in 1..Len(main.log) :
    IsCdCall(main.log[j]) =>
      main.log[j].ctxAfter.env[<<"P", "W", "D">>] = PwdPrints(main.log[j].ctxAfter)
\* C33: a path that starts with /workspace/ resolves to the same path at
\* every reachable cwd as at the root, and a cd to the path that pwd prints
\* leaves cwd as it was.
C33_AbsoluteSameEverywhere ==
  \A j \in 1..Len(main.log) :
    IsCdCall(main.log[j]) =>
      /\ \A p \in PathArgs :
           StartsWith(p, WorkspacePrefix \o <<"/">>) =>
             resolvePath(p, main.log[j].ctxAfter.cwd) = resolvePath(p, Dot)
      /\ main.log[j].calls[1].args = <<PwdPrints(main.log[j].ctxBefore)>> =>
           main.log[j].ctxAfter.cwd = main.log[j].ctxBefore.cwd
\* ------------------------------------------------------------------------
\* Properties of cp and mv
\* ------------------------------------------------------------------------

IsCopyCall(e) ==
  /\ e.calls # <<>>
  /\ e.calls[1].name \in {<<"c", "p">>, <<"m", "v">>}
  /\ Len(e.calls[1].args) >= 2

\* the content the store holds at the path operand k of the call names, Null
\* when it holds no file there
OperandContent(e, k, tree) ==
  safeRead(tree, resolvePath(e.calls[1].args[k], e.ctxBefore.cwd))

\* C34: when mv SRC DST or cp SRC DST answers exit code 0, DST holds the
\* content SRC held before, also when both name the same path, and cp leaves
\* SRC as it was; when SRC does not exist both answer a non-zero exit code
\* and no file changes.
C34_CopyAndMove ==
  \A j \in 1..Len(main.log) :
    IsCopyCall(main.log[j]) =>
      /\ (main.log[j].calls[1].status = "ok" /\ main.log[j].calls[1].res.exitCode = 0) =>
           /\ OperandContent(main.log[j], 1, main.log[j].fsBefore) # Null
           /\ OperandContent(main.log[j], 2, main.log[j].calls[1].fs) =
                OperandContent(main.log[j], 1, main.log[j].fsBefore)
           /\ main.log[j].calls[1].name = <<"c", "p">> =>
                OperandContent(main.log[j], 1, main.log[j].calls[1].fs) =
                  OperandContent(main.log[j], 1, main.log[j].fsBefore)
      /\ OperandContent(main.log[j], 1, main.log[j].fsBefore) = Null =>
           /\ main.log[j].calls[1].status = "ok"
           /\ main.log[j].calls[1].res.exitCode # 0
           /\ main.log[j].calls[1].fs = main.log[j].fsBefore
\* ------------------------------------------------------------------------
\* Properties of xargs and of variable expansion
\* ------------------------------------------------------------------------

IsXargsCall(e) ==
  /\ e.calls # <<>>
  /\ e.calls[1].name = <<"x", "a", "r", "g", "s">>
  /\ Len(e.calls[1].args) > 0

\* the words of the lines of a text
WordsOf(text) ==
  FilterNonEmpty(SplitChar([k \in 1..Len(text) |->
                              IF text[k] = "\n" THEN " " ELSE text[k]], " "))

\* C36: the lines that reach `xargs CMD` as stdin are handed to CMD as
\* literal arguments only: the call answers, and leaves the store, as CMD
\* called with its own arguments followed by the words of stdin, so that a
\* `> path` or a `$NAME` in stdin writes no file and is not expanded.
C36_StdinIsData ==
  \A j \in 1..Len(main.log) :
    IsXargsCall(main.log[j]) =>
      Let(dispatch(main.log[j].calls[1].args[1],
                   Tail(main.log[j].calls[1].args) \o WordsOf(main.log[j].calls[1].stdin),
                   main.log[j].ctxBefore, <<>>, main.log[j].fsBefore),
          LAMBDA literal :
            /\ main.log[j].calls[1].status = literal.status
            /\ main.log[j].calls[1].res = literal.res
            /\ main.log[j].calls[1].fs = literal.fs)
\* a character that no command line and no value of the environment holds
Mark == "@"

\* the text with every character `from` replaced by `to`
Replace(text, from, to) ==
  [k \in 1..Len(text) |-> IF text[k] = from THEN to ELSE text[k]]

\* the environment with the dollars of its values marked
Marked(env) == [name \in DOMAIN env |-> Replace(env[name], "$", Mark)]

\* C37: expansion is single-level: the value put in the place of ${NAME} or
\* $NAME is not scanned for references again, so the expanded text is the
\* same as when the dollars in the values are hidden from the scan and put
\* back afterwards.
C37_SingleLevel ==
  \A j \in 1..Len(main.log) :
    Let(extractRedirect(main.log[j].raw).cmdStr, LAMBDA text :
      expandVars(text, main.log[j].ctxBefore.env) =
        Replace(expandVars(text, Marked(main.log[j].ctxBefore.env)), Mark, "$"))
\* ------------------------------------------------------------------------
\* Properties of concurrent appends
\* ------------------------------------------------------------------------

\* the calls of runSingle of slot s that have appended to a file
Appends(s) ==
  {j \in 1..Len(inv[s].log) :
     inv[s].log[j].redirect = "append" /\ inv[s].log[j].status = "ok"}

\* C35: when the invocations that interleave have all returned, every file
\* they appended to with `>>` holds the output of each of these appends: no
\* append is lost.
C35_NoLostAppend ==
  (\A s \in AllSlots : inv[s].pc \in {"idle", "done"}) =>
    \A s \in AllSlots : \A j \in Appends(s) :
      Let(safeRead(fs[inv[s].ctx.groupId], inv[s].log[j].target), LAMBDA content :
        /\ content # Null
        /\ Includes(content, inv[s].log[j].calls[1].res.stdout))

====
